---- MODULE Spec2Model ----
(***************************************************************************)
(* Model of the realtime plane of discord-async-rs.                        *)
(*                                                                         *)
(*   Spec          the gateway session: supervisor loop, handshake, duplex *)
(*                 read/write loop (src/src/discord.rs, src/src/gateway.rs)*)
(*   SpecRegistry  the guild registry under GuildCreate frames             *)
(*   SpecGuilds    the guild mailboxes and their consumers                 *)
(*   SpecWriter    the writer of a live connection, fairly scheduled       *)
(*   SpecFused     the main and the voice Gateway stream                   *)
(*                 (src/src/gateway.rs, src/src/voice/gateway.rs)          *)
(*   SpecShutdown  the supervisor while the application goes away          *)
(***************************************************************************)
EXTENDS Integers, Sequences, FiniteSets, TLC

(***************************************************************************)
(* Bounds of the model.                                                    *)
(***************************************************************************)
NumGuilds == 2        \* guild ids 1..NumGuilds
MaxWire == 4          \* dispatch frames the server sends in one run of Spec
MaxGuildWire == 4     \* dispatch frames the server sends in one run of SpecGuilds
MaxRegistryWire == 3  \* dispatch frames the server sends in one run of SpecRegistry
MaxShutdownWire == 2  \* dispatch frames the server sends in one run of SpecShutdown
MaxWriterWire == 2    \* dispatch frames the server sends in one run of SpecWriter
MaxTicks == 2         \* heartbeat deadlines that may be overdue at once
MaxPolls == 3         \* polls of each Gateway stream in one run of SpecFused
MaxCmds == 2          \* application commands submitted in one run
MailboxBuffer == 1    \* buffer of a guild mailbox (16 in the source)
SeedBuffer == 0       \* buffer of the seed channel (8 in the source)
MaxControls == 3      \* controls the owner sends to one voice connection
MaxVoiceEvents == 1   \* items the voice gateway reads after its handshake
MaxVoiceBeats == 1    \* heartbeats the voice gateway writer sends
MaxVoiceRecv == 1     \* events waiting when the voice socket reader receives
MaxSockControls == 4   \* controls handed to one voice socket
MaxFrameEvents == 2   \* items the voice gateway reads while frames are handed in
NumRoles == 2         \* role ids 1..NumRoles of the guild projection
NumMembers == 2       \* member ids 1..NumMembers of the guild projection
MaxEncodeSeq == 2     \* largest sequence number of an encoded command
TicksPerMicro == 2    \* readings of the clock in one microsecond
MaxJumps == 7         \* times the clock moves in one run of SpecOpus
MaxOpusItems == 7     \* items an OpusStream yields in one run of SpecOpus

Guilds == 1..NumGuilds

\* the absent value of an optional integer
NoSeq == -1
NoSession == 0

VARIABLES
    pc,          \* where the supervisor task is suspended
    meta,        \* Meta { session_id, user, application }
    sequence,    \* the shared AtomicU64
    token,       \* Connector::token of the connector being used
    finished,    \* Gateway::finished of the gateway of this connection
    guilds,      \* the registry: guild id -> (known, available, send)
    box,         \* contents of each guild mailbox
    rx,          \* where the receiver of each guild mailbox is
    seedq,       \* contents of the seed channel
    cmdq,        \* contents of the command channel
    flag,        \* round-robin flag of stream::select
    ticksDue,    \* heartbeat deadlines elapsed and not yet yielded
    srvSeq,      \* last sequence number the server put on a frame
    wireLog,     \* guild id of every dispatch frame sent (0: not guild-scoped)
    cmdN,        \* number of commands the application has submitted
    hs,          \* handshake commands handed to the transport in this attempt
    maxSeen,     \* largest s on any inbound frame of the session
    lastHb,      \* the last heartbeat written, with maxSeen when sampled
    ticksElapsed,\* heartbeat deadlines elapsed on this connection
    hbWritten,   \* heartbeats written on this connection
    bypass,      \* commands written since a deadline has been overdue
    lastUnavail, \* unavailable flag of the last GuildCreate processed
    allocated,   \* mailboxes allocated per guild
    taken,       \* wire indices each guild consumer has taken, in order
    openedBy,    \* handshake command the live connection was opened with
    invalidated, \* session id an InvalidSession was received for, if any
    atBuild,     \* session id and counter when the connector was built
    offer,       \* outcome of send_or_drop per guild in the last step
    lost,        \* wire index of the last event discarded on a full mailbox
    notified,    \* the last of Online and Offline offered to each guild
    undecoded,   \* read() was given a frame that its codec could not decode
    fused,       \* the Gateway streams polled on their own (SpecFused)
    shutdown,    \* the application has dropped its Discord handle
    conn,        \* voice::Connection: its fields and whether run() is looping
    gw,          \* the voice gateway task of the connection and its channels
    sock,        \* the voice socket task of the connection and its channels
    listener,    \* events the voice connection has reported to its owner
    datagrams,   \* every datagram the voice socket writer has sent
    guildState,  \* Guild::state of one guild projection, and the last event
    rest,        \* the last REST request: what was sent back and returned
    codec,       \* the last envelope decoded or command encoded
    snow,        \* a snowflake and what its methods returned
    opus,        \* an OpusStream, the clock, and the last item it yielded
    player       \* the voice player of one guild

\* the state of the gateway supervisor and of its environment
gvars == <<pc, meta, sequence, token, finished, guilds, box, rx, seedq, cmdq,
           flag, ticksDue, srvSeq, wireLog, cmdN, hs, maxSeen, lastHb,
           ticksElapsed, hbWritten, bypass, lastUnavail, allocated, taken,
           openedBy, invalidated, atBuild, offer, lost, notified,
           undecoded>>

\* the voice plane
voicevars == <<conn, gw, sock, listener, datagrams>>

\* the state outside the realtime gateway plane
planes == <<voicevars, guildState, rest, codec, snow, opus, player>>

vars == <<gvars, fused, shutdown, planes>>

\* what the steps of the voice plane leave alone
outsideVoice ==
    <<gvars, fused, shutdown, guildState, rest, codec, snow, opus, player>>

\* what the steps of the guild projection leave alone
outsideProjection ==
    <<gvars, fused, shutdown, voicevars, rest, codec, snow, opus, player>>

\* what a request of the REST client leaves alone
outsideRest ==
    <<gvars, fused, shutdown, voicevars, guildState, codec, snow, opus,
      player>>

\* what the JSON encoder leaves alone
outsideCodec ==
    <<gvars, fused, shutdown, voicevars, guildState, rest, snow, opus, player>>

\* what the methods of Snowflake leave alone
outsideSnow ==
    <<gvars, fused, shutdown, voicevars, guildState, rest, codec, opus,
      player>>

\* what an OpusStream leaves alone
outsideOpus ==
    <<gvars, fused, shutdown, voicevars, guildState, rest, codec, snow,
      player>>

\* what the steps of the voice player leave alone
outsidePlayer ==
    <<gvars, fused, shutdown, voicevars, guildState, rest, codec, snow, opus>>

\* what the steps of the gateway supervisor leave alone
outsideGateway == <<fused, shutdown, planes>>

\* number of dispatch frames the server has sent
wireN == Len(wireLog)

(***************************************************************************)
(* Inbound items: what one poll of the connection can yield.               *)
(***************************************************************************)
Frame(t, s, g, un) == [t |-> t, s |-> s, g |-> g, un |-> un]

\* frames that are not dispatches carry a null s
ControlFrames ==
    { Frame(t, NoSeq, 0, "na") : t \in {"Hello", "HeartbeatAck", "InvalidSession"} }

\* dispatch frames carry the server's next sequence number; "Other" is a
\* dispatch without a guild id
DispatchFrames(s) ==
    { Frame("Resumed", s, 0, "na"), Frame("Other", s, 0, "na") }
        \cup { Frame("GuildCreate", s, g, un) :
                 g \in Guilds, un \in {"true", "false", "missing"} }
        \cup { Frame("GuildEvent", s, g, "na") : g \in Guilds }

\* Ready opens a new session on the server: its sequence numbers restart
ReadyFrame == Frame("Ready", 1, 0, "na")

\* Some(Err(_)) and None
ErrorItems ==
    { Frame(t, NoSeq, 0, "na") : t \in {"ErrClose", "ErrWs", "ErrOther", "End"} }

IsDispatch(f) ==
    f.t \in {"Ready", "Resumed", "Other", "GuildCreate", "GuildEvent"}

\* Guild ids are opaque keys of the registry, so the server's guilds are
\* numbered in the order the supervisor first records them: guild g is named
\* on the wire only once guild g - 1 is on record.
Mentionable(g) ==
    \/ g = 1
    \/ guilds[g - 1].known
    \/ \E i \in 1..Len(wireLog) : wireLog[i] = g - 1

\* the items the next poll can yield when the server sends frames of
\* env.kinds, GuildCreate frames with an `unavailable` of env.un, and at most
\* env.wire dispatch frames
InboundItems(env) ==
    { f \in ControlFrames \cup ErrorItems
               \cup (IF wireN < env.wire
                       THEN DispatchFrames(srvSeq + 1) \cup {ReadyFrame}
                       ELSE {}) :
        /\ f.t \in env.kinds
        /\ f.un \in env.un \cup {"na"}
        /\ f.g # 0 => Mentionable(f.g) }

\* Event::guild_id: the guild an event is routed to (0: none)
guild_id(f) == IF f.t = "GuildEvent" THEN f.g ELSE 0

\* the server's bookkeeping when item f is delivered
ServerDelivers(f) ==
    /\ srvSeq' = IF IsDispatch(f) THEN f.s ELSE srvSeq
    /\ wireLog' = IF IsDispatch(f)
                    THEN Append(wireLog, guild_id(f)) ELSE wireLog
    /\ maxSeen' = IF f.t = "Ready" THEN f.s
                  ELSE IF f.s > maxSeen THEN f.s ELSE maxSeen

(***************************************************************************)
(* Guild mailboxes: futures::channel::mpsc with one sender.                *)
(***************************************************************************)
Alive(r) == r \in {"seed", "held"}

\* a sender is parked once the queue holds more than `buffer` messages
Parked(q, buffer) == Len(q) > buffer

Item(k, i, g) == [k |-> k, i |-> i, g |-> g]

\* send_or_drop on one registry slot; yields the new slot and queue
send_or_drop_bug_keeps_sender(send, q, r, item) ==
    IF send = "None" THEN [send |-> "None", q |-> q]
    ELSE IF ~Alive(r) THEN [send |-> "Some", q |-> q]
    ELSE IF Parked(q, MailboxBuffer) THEN [send |-> "Some", q |-> q]
    ELSE [send |-> "Some", q |-> Append(q, item)]

send_or_drop_bug_pushes_front(send, q, r, item) ==
    IF send = "None" THEN [send |-> "None", q |-> q]
    ELSE IF ~Alive(r) THEN [send |-> "None", q |-> q]
    ELSE IF Parked(q, MailboxBuffer) THEN [send |-> "Some", q |-> q]
    ELSE [send |-> "Some", q |-> <<item>> \o q]

send_or_drop(send, q, r, item) ==
    IF send = "None" THEN [send |-> "None", q |-> q]
    ELSE IF ~Alive(r) THEN [send |-> "None", q |-> q]
    ELSE IF Parked(q, MailboxBuffer) THEN [send |-> "Some", q |-> q]
    ELSE [send |-> "Some", q |-> Append(q, item)]

\* which case of send_or_drop applies
Outcome(send, q, r) ==
    IF send = "None" THEN "absent"
    ELSE IF ~Alive(r) THEN "disconnected"
    ELSE IF Parked(q, MailboxBuffer) THEN "full"
    ELSE "sent"

NoOffer == [g \in Guilds |-> "none"]

Entry(known, available, send) ==
    [known |-> known, available |-> available, send |-> send]

\* the loop of start_discord that offers Offline to every registry entry
BroadcastOffline ==
    LET res(g) == send_or_drop(guilds[g].send, box[g], rx[g], Item("Offline", 0, 0))
    IN  /\ guilds' = [g \in Guilds |->
                        IF guilds[g].known
                          THEN [guilds[g] EXCEPT !.send = res(g).send]
                          ELSE guilds[g]]
        /\ box' = [g \in Guilds |->
                     IF guilds[g].known THEN res(g).q ELSE box[g]]
        /\ offer' = [g \in Guilds |->
                       IF guilds[g].known
                         THEN Outcome(guilds[g].send, box[g], rx[g])
                         ELSE "none"]
        /\ notified' = [g \in Guilds |->
                          IF guilds[g].known THEN "Offline" ELSE notified[g]]

\* the two Gateway streams before their first poll
Streams == {"main", "voice"}

FusedInit ==
    [st \in Streams |->
        [finished |-> FALSE, last |-> "none", ended |-> FALSE,
         polls |-> 0, connPolls |-> 0]]

(***************************************************************************)
(* Optional values, fixed-width integers and bytes.                        *)
(***************************************************************************)
\* Option<T>: None is the empty sequence, Some(x) the sequence of x alone
None == <<>>

Some(x) == <<x>>

\* n zero bytes
Zeros(n) == [i \in 1..n |-> 0]

\* WriteBytesExt::write_u16::<BigEndian>
be_u16(x) == <<x \div 256, x % 256>>

\* ReadBytesExt::read_u16::<BigEndian>
read_u16(b) == b[1] * 256 + b[2]

\* a u32 is kept as its two 16-bit halves <<high, low>>
\* WriteBytesExt::write_u32::<BigEndian>
be_u32(x) == be_u16(x[1]) \o be_u16(x[2])

\* u16::wrapping_add
wrapping_add_u16(x, k) == (x + k) % 2^16

\* u32::wrapping_add of a k below 2^16
wrapping_add_u32(x, k) ==
    <<(x[1] + (x[2] + k) \div 2^16) % 2^16, (x[2] + k) % 2^16>>

\* dst[..Len(src)].copy_from_slice(src)
copy_from_slice(dst, src) ==
    [i \in 1..Len(dst) |-> IF i <= Len(src) THEN src[i] ELSE dst[i]]

(***************************************************************************)
(* The voice plane before the voice connection has run.                    *)
(***************************************************************************)
ENCRYPTION_MODE == "xsalsa20_poly1305"

\* Connection::new; controller and controls are the owner's Controller and
\* the number of controls it has sent
ConnectionNew ==
    [state |-> "Idle", session_id |-> None, token |-> None,
     endpoint |-> None, ready |-> None, external_addr |-> None,
     gw_controller |-> FALSE, sock_controller |-> FALSE,
     running |-> TRUE, controller |-> TRUE, controls |-> 0]

\* no voice gateway task has been spawned
GatewayNone ==
    [pc |-> "none", resume |-> FALSE, reader |-> "idle", writer |-> "idle",
     event_recv |-> <<>>, command_recv |-> <<>>, written |-> <<>>,
     count |-> 0, events |-> 0, handshake |-> None]

\* no voice socket task has been spawned
SocketNone ==
    [pc |-> "none", addr |-> None, ssrc |-> <<0, 0>>,
     control_recv |-> <<>>, event_recv |-> <<>>,
     sequence |-> 0, timestamp |-> <<0, 0>>, cipher |-> None,
     nonce |-> Zeros(24), packet |-> Zeros(12),
     sent |-> 0, discarded |-> 0, emitted |-> <<>>, reply |-> None,
     start |-> 0]

VoiceInit ==
    /\ conn = ConnectionNew
    /\ gw = GatewayNone
    /\ sock = SocketNone
    /\ listener = <<>>
    /\ datagrams = <<>>

(***************************************************************************)
(* The guild projection before Guild::new has loaded a GuildCreate.        *)
(***************************************************************************)
RoleIds == 1..NumRoles

MemberIds == 1..NumMembers

\* State::Stateful with empty maps; a map is a function to Option values
StateNew ==
    [roles |-> [r \in RoleIds |-> None],
     members |-> [m \in MemberIds |-> None],
     last |-> [kind |-> "none", id |-> 0, payload |-> None]]

ProjectionInit ==
    /\ guildState = StateNew

\* no REST request has been made
RestIdle ==
    [method |-> "none",
     sent |-> [kind |-> "none", status |-> 0, readable |-> FALSE,
               api_error |-> FALSE, value |-> FALSE],
     result |-> [kind |-> "none", code |-> 0],
     optional |-> [kind |-> "none", code |-> 0]]

RestInit ==
    /\ rest = RestIdle

\* JSON values: null, numbers, strings, booleans, and the objects of the
\* protocol by what they hold (m: the names of their members)
J(kind, n, s, b, m) == [kind |-> kind, n |-> n, s |-> s, b |-> b, m |-> m]

JNull == J("null", 0, "", FALSE, {})

JNum(n) == J("num", n, "", FALSE, {})

JStr(s) == J("str", 0, s, FALSE, {})

JBool(b) == J("bool", 0, "", b, {})

\* nothing has been decoded or encoded
CodecIdle ==
    [did |-> "none", envelope |-> <<>>,
     decoded |-> [err |-> "", sequence |-> None,
                  event |-> [kind |-> "none", n |-> 0, s |-> "", b |-> FALSE]],
     command |-> [kind |-> "none", body |-> JNull],
     frame |-> [kind |-> "none", members |-> <<>>]]

CodecInit ==
    /\ codec = CodecIdle

\* no method of a Snowflake has been called
SnowIdle ==
    [v |-> <<0, 0, 0, 0>>, date_time |-> None, worker |-> None,
     process |-> None, increment |-> None]

SnowInit ==
    /\ snow = SnowIdle

SILENCE_FRAME_COUNT == 5

\* an OpusStream made at the time now; k items were yielded, the last one
\* at the time `at`, `passed` after the deadline `due`
OpusStream_new(now) ==
    [now |-> now, jumps |-> 0, created |-> now, delay |-> now,
     deadline |-> now, has_delayed |-> FALSE,
     silence_frames |-> SILENCE_FRAME_COUNT, done |-> FALSE,
     k |-> 0, at |-> now, due |-> now, passed |-> 0, last |-> "none"]

OpusInit ==
    /\ opus = OpusStream_new(0)

(***************************************************************************)
(* The voice player of one guild after Player::new.                        *)
(***************************************************************************)
\* Player::new, with what the last turn of run() emitted and issued, the
\* arm of the select! it took, the channel a GuildOffline left to rejoin,
\* and whether the stream being played has yielded an error
Player_new ==
    [state |-> "Idle", channel_id |-> None, session_id |-> None,
     token |-> None, endpoint |-> None, conn_event_recv |-> "empty",
     connect_timeout |-> "empty", voice_send |-> FALSE,
     encoder |-> "empty", running |-> TRUE,
     events |-> <<>>, issued |-> <<>>,
     last |-> [arm |-> "new", kind |-> "new", channel_id |-> None],
     rejoin |-> None, errored |-> FALSE]

PlayerInit == player = Player_new

\* the planes that hold no state between two calls
CallsInit ==
    /\ RestInit
    /\ CodecInit
    /\ SnowInit
    /\ OpusInit
    /\ PlayerInit

PlanesInit ==
    /\ VoiceInit
    /\ ProjectionInit
    /\ CallsInit

(***************************************************************************)
(* Initial state: start_discord before its first connect.                  *)
(***************************************************************************)
SessionInit ==
    /\ pc = "build"
    /\ meta = [session_id |-> NoSession, user |-> FALSE, application |-> FALSE]
    /\ sequence = 0
    /\ token = [kind |-> "New", session_id |-> NoSession, seq |-> 0]
    /\ finished = FALSE
    /\ guilds = [g \in Guilds |-> Entry(FALSE, FALSE, "None")]
    /\ box = [g \in Guilds |-> <<>>]
    /\ rx = [g \in Guilds |-> "none"]
    /\ seedq = <<>>
    /\ cmdq = <<>>
    /\ flag = FALSE
    /\ ticksDue = 0
    /\ srvSeq = 0
    /\ wireLog = <<>>
    /\ cmdN = 0
    /\ hs = <<>>
    /\ maxSeen = 0
    /\ lastHb = [d |-> 0, max |-> 0]
    /\ ticksElapsed = 0
    /\ hbWritten = 0
    /\ bypass = 0
    /\ lastUnavail = [g \in Guilds |-> "na"]
    /\ allocated = [g \in Guilds |-> 0]
    /\ taken = [g \in Guilds |-> <<>>]
    /\ openedBy = "none"
    /\ invalidated = NoSession
    /\ atBuild = [session_id |-> NoSession, seq |-> 0]
    /\ offer = [g \in Guilds |-> "none"]
    /\ lost = 0
    /\ notified = [g \in Guilds |-> "none"]
    /\ undecoded = FALSE
    /\ fused = FusedInit
    /\ shutdown = FALSE

Init ==
    /\ SessionInit
    /\ PlanesInit


(***************************************************************************)
(* The end of a connect attempt: connect returns Err, start_discord        *)
(* offers Offline to every registry entry and sleeps.                      *)
(***************************************************************************)
ConnectionEnds ==
    /\ BroadcastOffline
    /\ pc' = "sleep"
    /\ finished' = FALSE
    /\ flag' = FALSE
    /\ ticksDue' = 0
    /\ openedBy' = "none"

\* the writer half as write() creates it
WriterStarts ==
    /\ flag' = FALSE
    /\ ticksDue' = 0
    /\ ticksElapsed' = 0
    /\ hbWritten' = 0
    /\ bypass' = 0

(***************************************************************************)
(* connect: the connector is built from the remembered session id.         *)
(***************************************************************************)
Connector_bug_always_resume(session_id, seq) ==
    [kind |-> "Resume", session_id |-> session_id, seq |-> seq]

Connector(session_id, seq) ==
    IF session_id # NoSession
      THEN [kind |-> "Resume", session_id |-> session_id, seq |-> seq]
      ELSE [kind |-> "New", session_id |-> NoSession, seq |-> 0]

\* the Identify or Resume command Connector::connect builds from the token
HandshakeCommand(tok) ==
    IF tok.kind = "New"
      THEN [op |-> "Identify", session_id |-> NoSession, seq |-> 0]
      ELSE [op |-> "Resume", session_id |-> tok.session_id, seq |-> tok.seq]

Build ==
    /\ UNCHANGED <<outsideGateway, lost, undecoded>>
    /\ offer' = NoOffer
    /\ notified' = notified
    /\ pc = "build"
    /\ token' = Connector(meta.session_id, sequence)
    /\ atBuild' = [session_id |-> meta.session_id, seq |-> sequence]
    /\ hs' = <<>>
    /\ pc' = "dial"
    /\ UNCHANGED <<meta, sequence, finished, guilds, box, rx, seedq, cmdq,
                   flag, ticksDue, srvSeq, wireLog, cmdN, maxSeen, lastHb,
                   ticksElapsed, hbWritten, bypass, lastUnavail, allocated,
                   taken, openedBy, invalidated>>

\* Connection::connect opens the transport, or fails
Dial ==
    /\ UNCHANGED <<outsideGateway, lost, undecoded>>
    /\ pc = "dial"
    /\ \/ /\ pc' = "hello"
          /\ offer' = NoOffer
          /\ notified' = notified
          /\ UNCHANGED <<finished, guilds, box, flag, ticksDue, openedBy>>
       \/ ConnectionEnds
    /\ UNCHANGED <<meta, sequence, token, rx, seedq, cmdq, srvSeq, wireLog,
                   cmdN, hs, maxSeen, lastHb, ticksElapsed, hbWritten, bypass,
                   lastUnavail, allocated, taken, invalidated, atBuild>>

\* read_event!(conn).expect_hello()?, then conn.send(msg).await?
ReadHello(env) ==
    /\ UNCHANGED <<outsideGateway, lost, undecoded>>
    /\ pc = "hello"
    /\ \E f \in InboundItems(env) :
         /\ ServerDelivers(f)
         /\ IF f.t = "Hello"
              THEN /\ hs' = Append(hs, HandshakeCommand(token))
                   /\ \/ /\ pc' = "first"
                         /\ offer' = NoOffer
                         /\ notified' = notified
                         /\ UNCHANGED <<finished, guilds, box, flag, ticksDue,
                                        openedBy>>
                      \/ ConnectionEnds
              ELSE /\ hs' = hs
                   /\ ConnectionEnds
    /\ UNCHANGED <<meta, sequence, token, rx, seedq, cmdq, cmdN, lastHb,
                   ticksElapsed, hbWritten, bypass, lastUnavail, allocated, taken,
                   invalidated, atBuild>>

\* the frame read after the handshake command; connect (discord.rs) records
\* the session when it is Ready and starts the duplex loop otherwise
ReadFirst(env) ==
    /\ UNCHANGED <<outsideGateway, lost, undecoded>>
    /\ pc = "first"
    /\ \E f \in InboundItems(env) :
         /\ ServerDelivers(f)
         /\ IF f \in ErrorItems
              THEN /\ ConnectionEnds
                   /\ UNCHANGED <<meta, ticksElapsed, hbWritten, bypass,
                                  invalidated>>
              ELSE /\ finished' = FALSE
                   /\ openedBy' = hs[1].op
                   /\ invalidated' =
                        IF f.t = "InvalidSession" /\ hs[1].op = "Resume"
                          THEN hs[1].session_id
                          ELSE IF f.t = "Ready" THEN NoSession ELSE invalidated
                   /\ offer' = NoOffer
                   /\ notified' = notified
                   /\ UNCHANGED <<guilds, box>>
                   /\ IF f.t = "Ready"
                        THEN /\ meta' = [session_id |-> Len(wireLog'), user |-> TRUE,
                                         application |-> TRUE]
                             /\ pc' = "seedUser"
                             /\ UNCHANGED <<flag, ticksDue, ticksElapsed,
                                            hbWritten, bypass>>
                        ELSE /\ meta' = meta
                             /\ pc' = "live"
                             /\ WriterStarts
    /\ UNCHANGED <<sequence, token, rx, seedq, cmdq, cmdN, hs, lastHb,
                   lastUnavail, allocated, taken, atBuild>>

\* seed_send.send(x).await: wait for room, enqueue, then flush; the send
\* fails at once, and its error is ignored, when the receiver is gone
SeedSend(from, item, to) ==
    /\ UNCHANGED <<outsideGateway, lost, undecoded>>
    /\ offer' = NoOffer
    /\ notified' = notified
    /\ pc = from
    /\ shutdown \/ ~Parked(seedq, SeedBuffer)
    /\ seedq' = IF shutdown THEN seedq ELSE Append(seedq, item)
    /\ pc' = to
    /\ UNCHANGED <<meta, sequence, token, finished, guilds, box, rx, cmdq,
                   flag, ticksDue, srvSeq, wireLog, cmdN, hs, maxSeen, lastHb,
                   ticksElapsed, hbWritten, bypass, lastUnavail, allocated, taken,
                   openedBy, invalidated, atBuild>>

SeedFlush(from, to) ==
    /\ UNCHANGED <<outsideGateway, lost, undecoded>>
    /\ offer' = NoOffer
    /\ notified' = notified
    /\ pc = from
    /\ shutdown \/ ~Parked(seedq, SeedBuffer)
    /\ pc' = to
    /\ IF to = "live"
         THEN WriterStarts
         ELSE UNCHANGED <<flag, ticksDue, ticksElapsed, hbWritten, bypass>>
    /\ UNCHANGED <<meta, sequence, token, finished, guilds, box, rx, seedq,
                   cmdq, srvSeq, wireLog, cmdN, hs, maxSeen, lastHb,
                   lastUnavail, allocated, taken, openedBy, invalidated, atBuild>>

SeedUser == SeedSend("seedUser", 0, "flushUser")
FlushUser == SeedFlush("flushUser", "seedApp")
SeedApp == SeedSend("seedApp", 0, "flushApp")
FlushApp == SeedFlush("flushApp", "live")

\* time::sleep(3 s), then the loop of start_discord connects again
Sleep ==
    /\ UNCHANGED <<outsideGateway, lost, undecoded>>
    /\ offer' = NoOffer
    /\ notified' = notified
    /\ pc = "sleep"
    /\ pc' = "build"
    /\ UNCHANGED <<meta, sequence, token, finished, guilds, box, rx, seedq,
                   cmdq, flag, ticksDue, srvSeq, wireLog, cmdN, hs, maxSeen,
                   lastHb, ticksElapsed, hbWritten, bypass, lastUnavail, allocated,
                   taken, openedBy, invalidated, atBuild>>


(***************************************************************************)
(* The write half: stream::select(command_recv, heartbeat).                *)
(***************************************************************************)
\* one poll of Select: the stream the flag points at is polled first, and
\* the flag flips when that stream yields
Select_bug_prefers_commands(flg, cmdReady, hbReady) ==
    IF cmdReady THEN [item |-> "cmd", flag |-> flg]
    ELSE IF hbReady THEN [item |-> "hb", flag |-> flg]
    ELSE [item |-> "pending", flag |-> flg]

Select(flg, cmdReady, hbReady) ==
    LET firstReady == IF flg THEN hbReady ELSE cmdReady
        secondReady == IF flg THEN cmdReady ELSE hbReady
    IN  IF firstReady
          THEN [item |-> IF flg THEN "hb" ELSE "cmd", flag |-> ~flg]
        ELSE IF secondReady
          THEN [item |-> IF flg THEN "cmd" ELSE "hb", flag |-> flg]
        ELSE [item |-> "pending", flag |-> flg]

\* the interval yields one tick per elapsed deadline
IntervalYield_bug_skips_missed(due) == 0

IntervalYield(due) == due - 1

\* a heartbeat deadline passes
TickElapse ==
    /\ UNCHANGED <<outsideGateway, lost, undecoded>>
    /\ offer' = NoOffer
    /\ notified' = notified
    /\ pc = "live"
    /\ ticksElapsed < MaxTicks
    /\ ticksDue' = ticksDue + 1
    /\ ticksElapsed' = ticksElapsed + 1
    /\ UNCHANGED <<pc, meta, sequence, token, finished, guilds, box, rx,
                   seedq, cmdq, flag, srvSeq, wireLog, cmdN, hs, maxSeen,
                   lastHb, hbWritten, bypass, lastUnavail, allocated, taken,
                   openedBy, invalidated, atBuild>>

\* the application submits a command through its Client
AppSubmit ==
    /\ UNCHANGED <<outsideGateway, lost, undecoded>>
    /\ offer' = NoOffer
    /\ notified' = notified
    /\ cmdN < MaxCmds
    /\ cmdN' = cmdN + 1
    /\ cmdq' = Append(cmdq, cmdN + 1)
    /\ UNCHANGED <<pc, meta, sequence, token, finished, guilds, box, rx,
                   seedq, flag, ticksDue, srvSeq, wireLog, hs, maxSeen,
                   lastHb, ticksElapsed, hbWritten, bypass, lastUnavail,
                   allocated, taken, openedBy, invalidated, atBuild>>

\* one iteration of the writer loop: take an item, gateway.send(item).await?
\* The first disjunct is the send that completes.  The second is the
\* connection ending with the item in gateway.send: the send returns an
\* error, or the read half ends first and select! drops the write future
\* that holds the item; either way the item was taken and is not written
Write ==
    /\ UNCHANGED <<outsideGateway, lost, undecoded>>
    /\ pc = "live"
    /\ LET sel == Select(flag, cmdq # <<>>, ticksDue > 0)
       IN  /\ sel.item # "pending"
           /\ cmdq' = IF sel.item = "cmd" THEN Tail(cmdq) ELSE cmdq
           /\ \/ /\ flag' = sel.flag
                 /\ ticksDue' = IF sel.item = "hb"
                                  THEN IntervalYield(ticksDue) ELSE ticksDue
                 /\ hbWritten' = IF sel.item = "hb"
                                   THEN hbWritten + 1 ELSE hbWritten
                 /\ lastHb' = IF sel.item = "hb"
                                THEN [d |-> sequence, max |-> maxSeen]
                                ELSE lastHb
                 /\ bypass' = IF sel.item = "hb" THEN 0
                              ELSE IF ticksDue > 0 THEN bypass + 1 ELSE bypass
                 /\ offer' = NoOffer
                 /\ notified' = notified
                 /\ UNCHANGED <<pc, finished, guilds, box, openedBy>>
              \/ /\ ConnectionEnds
                 /\ UNCHANGED <<hbWritten, lastHb, bypass>>
    /\ UNCHANGED <<meta, sequence, token, rx, seedq, srvSeq, wireLog, cmdN,
                   hs, maxSeen, ticksElapsed, lastUnavail, allocated, taken,
                   invalidated, atBuild>>


(***************************************************************************)
(* The read half: Gateway::poll_next and the loop of read().               *)
(***************************************************************************)
\* impl Stream for Gateway: a fused poll of the connection.  `item` is what
\* the connection would yield; it is polled only when `polled` is TRUE
Gateway_poll_next_bug_ws_not_final(fin, item) ==
    IF fin
      THEN [res |-> "End", finished |-> TRUE, polled |-> FALSE]
      ELSE [res |-> item, finished |-> item = "End", polled |-> TRUE]

Gateway_poll_next(fin, item) ==
    IF fin
      THEN [res |-> "End", finished |-> TRUE, polled |-> FALSE]
      ELSE [res |-> item, finished |-> item \in {"End", "ErrWs"},
            polled |-> TRUE]

\* voice::Gateway::poll_next: the same fuse over the voice connection
voice_Gateway_poll_next(fin, item) ==
    IF fin
      THEN [res |-> "End", finished |-> TRUE, polled |-> FALSE]
      ELSE [res |-> item, finished |-> item \in {"End", "ErrWs"},
            polled |-> TRUE]

\* FusedStream::is_terminated, of both streams
is_terminated(fin) == fin

\* what a poll of the connection under a Gateway stream can give: an event,
\* Pending, an error or the end of the stream
ConnItems == {"Event", "Pending", "ErrWs", "ErrClose", "ErrOther", "End"}

\* *available after a GuildCreate carrying `unavailable`
Availability_bug_no_update(available, unavailable) == available

Availability(available, unavailable) ==
    IF available = unavailable THEN ~unavailable ELSE available

\* gc.guild.unavailable.unwrap_or(true)
Unavailable(f) == f.un # "false"

StayLive == UNCHANGED <<pc, flag, ticksDue, openedBy>>

\* the reader's gateway is finished: poll_next yields None, the loop ends
ReadFinished ==
    /\ UNCHANGED <<outsideGateway, lost, undecoded>>
    /\ pc = "live"
    /\ Gateway_poll_next(finished, "End").res = "End"
    /\ ~Gateway_poll_next(finished, "End").polled
    /\ ConnectionEnds
    /\ UNCHANGED <<meta, sequence, token, rx, seedq, cmdq, srvSeq, wireLog,
                   cmdN, hs, maxSeen, lastHb, ticksElapsed, hbWritten, bypass,
                   lastUnavail, allocated, taken, invalidated, atBuild>>

\* GuildCreate: register a new guild, then track its availability
OnGuildCreate(f) ==
    LET g == f.g
        isNew == ~guilds[g].known
        seeded == ~shutdown /\ ~Parked(seedq, SeedBuffer)
        e0 == IF isNew THEN Entry(TRUE, FALSE, "Some") ELSE guilds[g]
        q0 == IF isNew THEN <<>> ELSE box[g]
        r0 == IF ~isNew THEN rx[g] ELSE IF seeded THEN "seed" ELSE "dropped"
        toggled == e0.available = Unavailable(f)
        res == send_or_drop(e0.send, q0, r0,
                   Item(IF Unavailable(f) THEN "Offline" ELSE "Online", 0, 0))
    IN  IF ~meta.application
          THEN /\ ConnectionEnds
               /\ UNCHANGED <<rx, seedq, lastUnavail, allocated, lost>>
          ELSE /\ guilds' = [guilds EXCEPT ![g] =
                    Entry(TRUE, Availability(e0.available, Unavailable(f)),
                          IF toggled THEN res.send ELSE e0.send)]
               /\ box' = [box EXCEPT ![g] = IF toggled THEN res.q ELSE q0]
               /\ rx' = [rx EXCEPT ![g] = r0]
               /\ seedq' = IF isNew /\ seeded THEN Append(seedq, g) ELSE seedq
               /\ allocated' = [allocated EXCEPT ![g] =
                                   IF isNew THEN @ + 1 ELSE @]
               /\ lastUnavail' = [lastUnavail EXCEPT ![g] = f.un]
               /\ offer' = [NoOffer EXCEPT ![g] =
                               IF toggled THEN Outcome(e0.send, q0, r0)
                               ELSE "none"]
               /\ notified' = [notified EXCEPT ![g] =
                                  IF toggled
                                    THEN IF Unavailable(f) THEN "Offline"
                                         ELSE "Online"
                                    ELSE @]
               /\ finished' = finished
               /\ lost' = lost
               /\ StayLive

\* any other event with a guild id goes to that guild's mailbox
OnGuildEvent(f) ==
    LET g == f.g
        res == send_or_drop(guilds[g].send, box[g], rx[g],
                            Item("Event", Len(wireLog'), g))
    IN  /\ guilds' = IF guilds[g].known
                       THEN [guilds EXCEPT ![g].send = res.send] ELSE guilds
        /\ box' = IF guilds[g].known THEN [box EXCEPT ![g] = res.q] ELSE box
        /\ offer' = [NoOffer EXCEPT ![g] =
                        IF guilds[g].known
                          THEN Outcome(guilds[g].send, box[g], rx[g])
                          ELSE "none"]
        /\ notified' = notified
        /\ lost' = IF guilds[g].known
                        /\ Outcome(guilds[g].send, box[g], rx[g]) = "full"
                     THEN Len(wireLog') ELSE lost
        /\ finished' = finished
        /\ StayLive
        /\ UNCHANGED <<rx, seedq, lastUnavail, allocated>>

\* Resumed, telling every guild on record whatever its availability
OnResumed_bug_tells_unavailable ==
    LET res(g) == send_or_drop(guilds[g].send, box[g], rx[g],
                               Item("Online", 0, 0))
        told(g) == guilds[g].known
    IN  /\ guilds' = [g \in Guilds |->
                        IF told(g) THEN [guilds[g] EXCEPT !.send = res(g).send]
                        ELSE guilds[g]]
        /\ box' = [g \in Guilds |-> IF told(g) THEN res(g).q ELSE box[g]]
        /\ offer' = [g \in Guilds |->
                       IF told(g) THEN Outcome(guilds[g].send, box[g], rx[g])
                       ELSE "none"]
        /\ notified' = [g \in Guilds |->
                          IF told(g) THEN "Online" ELSE notified[g]]
        /\ finished' = finished
        /\ StayLive
        /\ UNCHANGED <<rx, seedq, lastUnavail, allocated, lost>>

\* Resumed: every available guild is offered Online
OnResumed ==
    LET res(g) == send_or_drop(guilds[g].send, box[g], rx[g],
                               Item("Online", 0, 0))
        told(g) == guilds[g].known /\ guilds[g].available
    IN  /\ guilds' = [g \in Guilds |->
                        IF told(g) THEN [guilds[g] EXCEPT !.send = res(g).send]
                        ELSE guilds[g]]
        /\ box' = [g \in Guilds |-> IF told(g) THEN res(g).q ELSE box[g]]
        /\ offer' = [g \in Guilds |->
                       IF told(g) THEN Outcome(guilds[g].send, box[g], rx[g])
                       ELSE "none"]
        /\ notified' = [g \in Guilds |->
                          IF told(g) THEN "Online" ELSE notified[g]]
        /\ finished' = finished
        /\ StayLive
        /\ UNCHANGED <<rx, seedq, lastUnavail, allocated, lost>>

\* one iteration of the reader loop on a gateway that is not finished
Read(env) ==
    /\ UNCHANGED outsideGateway
    /\ pc = "live"
    /\ \E f \in InboundItems(env) :
         LET p == Gateway_poll_next(finished, f.t) IN
         /\ p.polled
         /\ ServerDelivers(f)
         /\ sequence' = IF f \notin ErrorItems /\ f.s # NoSeq
                          THEN f.s ELSE sequence
         /\ meta' = IF f.t = "InvalidSession"
                      THEN [meta EXCEPT !.session_id = NoSession] ELSE meta
         /\ invalidated' = IF f.t = "InvalidSession" /\ openedBy = "Resume"
                             THEN token.session_id ELSE invalidated
         /\ undecoded' = (undecoded \/ f.t = "ErrOther")
         /\ CASE f.t = "GuildCreate" -> OnGuildCreate(f)
              [] f.t = "GuildEvent" -> OnGuildEvent(f)
              [] f.t = "Resumed" -> OnResumed
              [] f.t \in {"InvalidSession", "ErrClose", "End"} ->
                    /\ ConnectionEnds
                    /\ UNCHANGED <<rx, seedq, lastUnavail, allocated, lost>>
              [] OTHER ->
                    /\ finished' = p.finished
                    /\ offer' = NoOffer
                    /\ notified' = notified
                    /\ StayLive
                    /\ UNCHANGED <<guilds, box, rx, seedq, lastUnavail,
                                   allocated, lost>>
    /\ UNCHANGED <<token, cmdq, cmdN, hs, lastHb, ticksElapsed, hbWritten,
                   bypass, taken, atBuild>>

(***************************************************************************)
(* The application: the Discord stream and the guild consumers.            *)
(***************************************************************************)
\* Discord::poll_next takes the next seed; a guild seed hands over the
\* receiver of that guild's mailbox
AppSeedRecv ==
    /\ UNCHANGED <<outsideGateway, lost, undecoded>>
    /\ offer' = NoOffer
    /\ notified' = notified
    /\ ~shutdown
    /\ seedq # <<>>
    /\ seedq' = Tail(seedq)
    /\ rx' = IF Head(seedq) \in Guilds
               THEN [rx EXCEPT ![Head(seedq)] = "held"] ELSE rx
    /\ UNCHANGED <<pc, meta, sequence, token, finished, guilds, box, cmdq,
                   flag, ticksDue, srvSeq, wireLog, cmdN, hs, maxSeen, lastHb,
                   ticksElapsed, hbWritten, bypass, lastUnavail, allocated,
                   taken, openedBy, invalidated, atBuild>>

\* the consumer of guild g takes the next item of its mailbox
GuildRecv(g) ==
    /\ UNCHANGED <<outsideGateway, lost, undecoded>>
    /\ offer' = NoOffer
    /\ notified' = notified
    /\ rx[g] = "held"
    /\ box[g] # <<>>
    /\ box' = [box EXCEPT ![g] = Tail(@)]
    /\ taken' = [taken EXCEPT ![g] =
                    IF Head(box[g]).k = "Event"
                      THEN Append(@, [i |-> Head(box[g]).i,
                                      g |-> Head(box[g]).g])
                      ELSE @]
    /\ UNCHANGED <<pc, meta, sequence, token, finished, guilds, rx, seedq,
                   cmdq, flag, ticksDue, srvSeq, wireLog, cmdN, hs, maxSeen,
                   lastHb, ticksElapsed, hbWritten, bypass, lastUnavail,
                   allocated, openedBy, invalidated, atBuild>>

\* the application drops the Guild, and with it the receiver
GuildDrop(g) ==
    /\ UNCHANGED <<outsideGateway, lost, undecoded>>
    /\ offer' = NoOffer
    /\ notified' = notified
    /\ rx[g] = "held"
    /\ rx' = [rx EXCEPT ![g] = "dropped"]
    /\ box' = [box EXCEPT ![g] = <<>>]
    /\ UNCHANGED <<pc, meta, sequence, token, finished, guilds, seedq, cmdq,
                   flag, ticksDue, srvSeq, wireLog, cmdN, hs, maxSeen, lastHb,
                   ticksElapsed, hbWritten, bypass, lastUnavail, allocated,
                   taken, openedBy, invalidated, atBuild>>

\* the application drops its Discord handle and its guilds: the seed
\* receiver, the seeds still queued and every mailbox receiver are gone
AppShutdown ==
    /\ ~shutdown
    /\ shutdown' = TRUE
    /\ seedq' = <<>>
    /\ rx' = [g \in Guilds |-> IF Alive(rx[g]) THEN "dropped" ELSE rx[g]]
    /\ offer' = NoOffer
    /\ notified' = notified
    /\ UNCHANGED <<pc, meta, sequence, token, finished, guilds, box, cmdq,
                   flag, ticksDue, srvSeq, wireLog, cmdN, hs, maxSeen, lastHb,
                   ticksElapsed, hbWritten, bypass, lastUnavail, allocated,
                   taken, openedBy, invalidated, atBuild, lost, undecoded, fused,
                   planes>>

\* the application polls a Gateway stream whose connection yields item
PollNext(st, p) ==
    /\ fused[st].polls < MaxPolls
    /\ fused' = [fused EXCEPT ![st] =
          [finished |-> p.finished,
           last |-> p.res,
           ended |-> @.ended \/ p.res \in {"End", "ErrWs"},
           polls |-> @.polls + 1,
           connPolls |-> @.connPolls + (IF p.polled THEN 1 ELSE 0)]]
    /\ UNCHANGED <<gvars, shutdown, planes>>

PollMain ==
    \E item \in ConnItems :
        PollNext("main", Gateway_poll_next(fused["main"].finished, item))

PollVoice ==
    \E item \in ConnItems :
        PollNext("voice", voice_Gateway_poll_next(fused["voice"].finished, item))

(***************************************************************************)
(* Spec: the session.  The server sends every kind of frame that has no    *)
(* guild id; the writer sends heartbeats.                                  *)
(***************************************************************************)
SessionEnv ==
    [kinds |-> {"Hello", "HeartbeatAck", "InvalidSession", "Ready", "Resumed",
                "Other", "ErrClose", "ErrWs", "ErrOther", "End"},
     un |-> {}, wire |-> MaxWire]

Next ==
    \/ Build
    \/ Dial
    \/ ReadHello(SessionEnv)
    \/ ReadFirst(SessionEnv)
    \/ SeedUser
    \/ FlushUser
    \/ SeedApp
    \/ FlushApp
    \/ Sleep
    \/ TickElapse
    \/ Write
    \/ ReadFinished
    \/ Read(SessionEnv)
    \/ AppSeedRecv

Spec == Init /\ [][Next]_vars


(***************************************************************************)
(* Properties of the session (checked under Spec).                         *)
(***************************************************************************)
\* positions of connect after the handshake command has been handed over
AfterHello ==
    {"first", "seedUser", "flushUser", "seedApp", "flushApp", "live"}

\* C1: in every connect attempt exactly one handshake command is sent after
\* Hello; it is Identify iff no session id was remembered when the connector
\* was built, and otherwise Resume with the remembered session id and the
\* value the shared counter had when the connector was built.
C1_OneHandshakeCommand ==
    /\ Len(hs) <= 1
    /\ pc \in {"dial", "hello"} => hs = <<>>
    /\ pc \in AfterHello =>
         /\ Len(hs) = 1
         /\ hs[1].op \in {"Identify", "Resume"}
         /\ hs[1].op = "Identify" <=> atBuild.session_id = NoSession
         /\ hs[1].op = "Resume" =>
              /\ hs[1].session_id = atBuild.session_id
              /\ hs[1].seq = atBuild.seq
    /\ pc = "first" =>
         /\ meta.session_id = atBuild.session_id
         /\ sequence = atBuild.seq

\* a Resume carrying a non-zero counter has been sent
C1_Witness ==
    /\ pc = "first"
    /\ Len(hs) = 1
    /\ hs[1].op = "Resume"
    /\ hs[1].seq > 0

\* C2: after an InvalidSession on a connection opened with Resume, the next
\* connector is built without a session id: the next attempt sends Identify
\* and never Resume with the invalidated session id.
C2_IdentifyAfterInvalidSession ==
    (invalidated # NoSession /\ pc \in {"dial", "hello", "first"}) =>
        /\ token.kind = "New"
        /\ hs # <<>> => hs[1].op = "Identify"

\* C3: the shared counter is zero whenever a connection is opened with
\* Identify, and has kept its value whenever it is opened with Resume.
C3_CounterZeroOnNewSession ==
    (pc = "first" /\ Len(hs) = 1) =>
        /\ hs[1].op = "Identify" => sequence = 0
        /\ hs[1].op = "Resume" => sequence = atBuild.seq

\* C4: every heartbeat written carries the largest sequence number seen on
\* any inbound frame of the session, handshake frames included.
C4_HeartbeatCarriesMaxSeen ==
    lastHb.d = lastHb.max

\* C23: a frame that the reader of the duplex loop cannot decode ends the
\* connection: Offline is offered to every guild of the registry and the
\* supervisor goes to its backoff.
C23_UndecodableFrameEndsConnection ==
    [][(~undecoded /\ undecoded') =>
          /\ pc' = "sleep"
          /\ \A g \in Guilds : guilds[g].known => offer'[g] # "none"]_vars

\* C22: when the first frame of a connect attempt is an event other than
\* Hello, the attempt fails and the supervisor goes to its backoff with no
\* session id remembered, so that the next connector is a new session.
C22_ForgetSessionOnUnexpectedEvent ==
    [][(pc = "hello" /\ pc' = "sleep" /\ Len(wireLog') > Len(wireLog)) =>
          meta'.session_id = NoSession]_vars


(***************************************************************************)
(* SpecRegistry: the guild registry.  The server opens sessions and sends  *)
(* GuildCreate frames with every form of the `unavailable` flag.           *)
(***************************************************************************)
RegistryHelloEnv == [kinds |-> {"Hello"}, un |-> {}, wire |-> MaxRegistryWire]

RegistryFirstEnv ==
    [kinds |-> {"Ready", "Resumed", "HeartbeatAck", "ErrClose"},
     un |-> {}, wire |-> MaxRegistryWire]

RegistryEnv ==
    [kinds |-> {"GuildCreate", "Resumed", "InvalidSession", "ErrClose"},
     un |-> {"true", "false", "missing"}, wire |-> MaxRegistryWire]

NextRegistry ==
    \/ Build
    \/ Dial
    \/ ReadHello(RegistryHelloEnv)
    \/ ReadFirst(RegistryFirstEnv)
    \/ SeedUser
    \/ FlushUser
    \/ SeedApp
    \/ FlushApp
    \/ Sleep
    \/ Read(RegistryEnv)
    \/ AppSeedRecv
    \/ \E g \in Guilds : GuildRecv(g)
    \/ \E g \in Guilds : GuildDrop(g)

SpecRegistry == Init /\ [][NextRegistry]_vars

(***************************************************************************)
(* Properties of the guild registry (checked under SpecRegistry).            *)
(***************************************************************************)
\* C8: after any sequence of GuildCreate events, disconnects and reconnects
\* a guild has at most one registry entry and at most one mailbox was ever
\* allocated for it, and its `available` flag is the negation of the
\* `unavailable` flag of the last GuildCreate processed for it (a missing
\* flag counting as unavailable).
C8_RegistryTracksAvailability ==
    \A g \in Guilds :
        /\ allocated[g] <= 1
        /\ guilds[g].known <=> allocated[g] = 1
        /\ lastUnavail[g] # "na" =>
             /\ guilds[g].known
             /\ guilds[g].available <=> lastUnavail[g] = "false"

\* a guild is available on a resumed connection, and another one was last
\* created without the flag
C8_Witness ==
    /\ pc = "live"
    /\ openedBy = "Resume"
    /\ \E g \in Guilds : guilds[g].available /\ lastUnavail[g] = "false"
    /\ \E g \in Guilds : ~guilds[g].available /\ lastUnavail[g] = "missing"

\* C34: between the handshake that returned Ready and the duplex loop the
\* supervisor does not wait for the application: where it hands the user
\* and the application seed to the seed channel, it can go on whatever the
\* channel holds.
C34_SeedsNeverHoldTheLoop ==
    pc \in {"seedUser", "flushUser", "seedApp", "flushApp"} =>
        (shutdown \/ ~Parked(seedq, SeedBuffer))

\* C25: when a GuildCreate names a guild that is not on record, the seed of
\* that guild is put on the seed channel, its receiver is the receiver of
\* the mailbox on record, whatever the channel holds, and no guild is ever
\* given a second mailbox.
C25_GuildSeedDelivered ==
    [][\A g \in Guilds :
          /\ allocated'[g] <= 1
          /\ (~guilds[g].known /\ guilds'[g].known) =>
                /\ rx'[g] = "seed"
                /\ seedq' = Append(seedq, g)]_vars

\* C11: when a connection ends, the Offline broadcast offers Offline to a
\* guild only if its registry entry is available and the last thing it was
\* told is not already Offline.
C11_OfflineOnlyForOnlineGuilds ==
    [][(pc # "sleep" /\ pc' = "sleep") =>
          \A g \in Guilds :
              offer'[g] # "none" =>
                  guilds[g].available /\ notified[g] # "Offline"]_vars


(***************************************************************************)
(* SpecGuilds: the guild mailboxes, from the state in which a session is   *)
(* established (Identify answered by Ready, both seeds taken).  Every      *)
(* later connection resumes it.                                            *)
(***************************************************************************)
InitGuilds ==
    /\ pc = "live"
    /\ meta = [session_id |-> 1, user |-> TRUE, application |-> TRUE]
    /\ sequence = 0
    /\ token = [kind |-> "New", session_id |-> NoSession, seq |-> 0]
    /\ finished = FALSE
    /\ guilds = [g \in Guilds |-> Entry(FALSE, FALSE, "None")]
    /\ box = [g \in Guilds |-> <<>>]
    /\ rx = [g \in Guilds |-> "none"]
    /\ seedq = <<>>
    /\ cmdq = <<>>
    /\ flag = FALSE
    /\ ticksDue = 0
    /\ srvSeq = 1
    /\ wireLog = <<0>>
    /\ cmdN = 0
    /\ hs = <<[op |-> "Identify", session_id |-> NoSession, seq |-> 0]>>
    /\ maxSeen = 1
    /\ lastHb = [d |-> 0, max |-> 0]
    /\ ticksElapsed = 0
    /\ hbWritten = 0
    /\ bypass = 0
    /\ lastUnavail = [g \in Guilds |-> "na"]
    /\ allocated = [g \in Guilds |-> 0]
    /\ taken = [g \in Guilds |-> <<>>]
    /\ openedBy = "Identify"
    /\ invalidated = NoSession
    /\ atBuild = [session_id |-> NoSession, seq |-> 0]
    /\ offer = NoOffer
    /\ lost = 0
    /\ notified = [g \in Guilds |-> "none"]
    /\ undecoded = FALSE
    /\ fused = FusedInit
    /\ shutdown = FALSE
    /\ PlanesInit

GuildHelloEnv == [kinds |-> {"Hello"}, un |-> {}, wire |-> MaxGuildWire]

GuildFirstEnv ==
    [kinds |-> {"HeartbeatAck"}, un |-> {}, wire |-> MaxGuildWire]

\* frames of the duplex loop
GuildEnv ==
    [kinds |-> {"GuildCreate", "GuildEvent", "Resumed", "ErrClose"},
     un |-> {"false"}, wire |-> MaxGuildWire]

NextGuilds ==
    \/ Build
    \/ Dial
    \/ ReadHello(GuildHelloEnv)
    \/ ReadFirst(GuildFirstEnv)
    \/ Sleep
    \/ Read(GuildEnv)
    \/ AppSeedRecv
    \/ \E g \in Guilds : GuildRecv(g)
    \/ \E g \in Guilds : GuildDrop(g)

SpecGuilds == InitGuilds /\ [][NextGuilds]_vars

(***************************************************************************)
(* Properties of the guild mailboxes (checked under SpecGuilds).           *)
(***************************************************************************)
\* C9: send_or_drop completes in every case: on a slot that is absent nothing
\* changes; when the receiver was dropped the slot becomes absent and the
\* event is discarded; when the mailbox is full the event is discarded and
\* slot and mailbox stay as they are; otherwise the event is appended.
C9_SendOrDropCases ==
    [][\A g \in Guilds :
          (guilds[g].known /\ offer'[g] # "none") =>
              /\ offer'[g] = Outcome(guilds[g].send, box[g], rx[g])
              /\ offer'[g] = "absent" =>
                    guilds'[g].send = "None" /\ box'[g] = box[g]
              /\ offer'[g] = "disconnected" =>
                    guilds'[g].send = "None" /\ box'[g] = box[g]
              /\ offer'[g] = "full" =>
                    guilds'[g].send = "Some" /\ box'[g] = box[g]
              /\ offer'[g] = "sent" =>
                    /\ guilds'[g].send = "Some"
                    /\ Len(box'[g]) = Len(box[g]) + 1
                    /\ SubSeq(box'[g], 1, Len(box[g])) = box[g]]_vars

\* in one step an event was discarded on a full mailbox of one guild while
\* the slot of another guild, whose receiver is gone, has become absent
C9_Witness ==
    /\ \E g \in Guilds : offer[g] = "full" /\ guilds[g].send = "Some"
    /\ \E g \in Guilds :
          /\ offer[g] \in {"disconnected", "absent"}
          /\ guilds[g].known
          /\ guilds[g].send = "None"

\* C10: what the consumer of a guild takes from its mailbox is a subsequence
\* of the guild's events in wire order: nothing reordered, nothing
\* duplicated, nothing that belongs to another guild.
C10_TakenInWireOrder ==
    \A g \in Guilds :
        \A j \in 1..Len(taken[g]) :
            /\ taken[g][j].g = g
            /\ taken[g][j].i \in 1..Len(wireLog)
            /\ wireLog[taken[g][j].i] = g
            /\ j > 1 => taken[g][j - 1].i < taken[g][j].i

\* a consumer has taken an event although an earlier event of its guild was
\* dropped
C10_Witness ==
    \E g \in Guilds :
        /\ taken[g] # <<>>
        /\ lost > 0
        /\ wireLog[lost] = g
        /\ lost < taken[g][Len(taken[g])].i


(***************************************************************************)
(* SpecWriter: the write half of one live connection, with the fairness    *)
(* of the task that runs it.  The application submits commands and         *)
(* heartbeat deadlines pass while the connection is live.                  *)
(***************************************************************************)
\* the state after a handshake in which Identify was answered by a frame
\* other than Ready
InitWriter ==
    /\ pc = "live"
    /\ meta = [session_id |-> NoSession, user |-> FALSE, application |-> FALSE]
    /\ sequence = 0
    /\ token = [kind |-> "New", session_id |-> NoSession, seq |-> 0]
    /\ finished = FALSE
    /\ guilds = [g \in Guilds |-> Entry(FALSE, FALSE, "None")]
    /\ box = [g \in Guilds |-> <<>>]
    /\ rx = [g \in Guilds |-> "none"]
    /\ seedq = <<>>
    /\ cmdq = <<>>
    /\ flag = FALSE
    /\ ticksDue = 0
    /\ srvSeq = 0
    /\ wireLog = <<>>
    /\ cmdN = 0
    /\ hs = <<[op |-> "Identify", session_id |-> NoSession, seq |-> 0]>>
    /\ maxSeen = 0
    /\ lastHb = [d |-> 0, max |-> 0]
    /\ ticksElapsed = 0
    /\ hbWritten = 0
    /\ bypass = 0
    /\ lastUnavail = [g \in Guilds |-> "na"]
    /\ allocated = [g \in Guilds |-> 0]
    /\ taken = [g \in Guilds |-> <<>>]
    /\ openedBy = "Identify"
    /\ invalidated = NoSession
    /\ atBuild = [session_id |-> NoSession, seq |-> 0]
    /\ offer = NoOffer
    /\ lost = 0
    /\ notified = [g \in Guilds |-> "none"]
    /\ undecoded = FALSE
    /\ fused = FusedInit
    /\ shutdown = FALSE
    /\ PlanesInit

WriterEnv ==
    [kinds |-> {"HeartbeatAck", "Other", "ErrOther", "ErrClose"},
     un |-> {}, wire |-> MaxWriterWire]

NextWriter ==
    \/ TickElapse
    \/ AppSubmit
    \/ Write
    \/ Read(WriterEnv)

SpecWriter == InitWriter /\ [][NextWriter]_vars /\ WF_vars(Write)

\* C5: while a connection is live every elapsed heartbeat deadline gives
\* exactly one Heartbeat: deadlines are neither coalesced nor skipped, a
\* heartbeat that is due is overtaken by at most one command, it needs no
\* command to be sent, and it is eventually written or the connection ends.
C5_OneHeartbeatPerTick ==
    /\ [](pc = "live" => hbWritten + ticksDue = ticksElapsed)
    /\ [](bypass <= 1)
    /\ \A n \in 1..MaxTicks :
          (pc = "live" /\ ticksElapsed >= n)
              ~> (pc # "live" \/ hbWritten >= n)

\* C35: no command the channel accepted is lost: an iteration of the writer
\* loop that takes a command off the channel writes it to the transport of
\* its connection, so the step that dequeues it leaves the connection live
\* (a connection that ends while the command is in gateway.send drops it:
\* the command is in neither the channel nor any transport).
C35_DequeuedIsWritten ==
    [][(cmdq # <<>> /\ cmdq' = Tail(cmdq)) => pc' = "live"]_vars

\* two deadlines were overdue at once and both heartbeats have been written
\* while commands were flowing
C5_Witness ==
    /\ pc = "live"
    /\ hbWritten = MaxTicks
    /\ ticksDue = 0
    /\ cmdN = MaxCmds
    /\ cmdq = <<>>
    /\ bypass = 0
    /\ lastHb.d > 0


(***************************************************************************)
(* SpecFused: the main and the voice Gateway stream, each polled on its    *)
(* own while its connection yields anything, also after its end.           *)
(***************************************************************************)
NextFused ==
    \/ PollMain
    \/ PollVoice

SpecFused == Init /\ [][NextFused]_vars

\* C6: once poll_next of the main or of the voice Gateway stream has
\* returned the end of the stream or a transport (Ws) error, is_terminated
\* is true and every later poll_next returns the end of the stream without
\* polling the connection.
C6_FusedAfterEnd ==
    /\ [](\A st \in Streams :
            fused[st].ended => is_terminated(fused[st].finished))
    /\ [][\A st \in Streams :
            (fused[st].ended /\ fused'[st].polls # fused[st].polls) =>
                /\ fused'[st].last = "End"
                /\ fused'[st].connPolls = fused[st].connPolls]_vars

\* the main stream ended on a transport error, the voice stream on the end
\* of its connection, and both have been polled again since
C6_Witness ==
    /\ fused["main"].ended
    /\ fused["main"].polls = MaxPolls
    /\ fused["main"].connPolls = 1
    /\ fused["voice"].ended
    /\ fused["voice"].polls = MaxPolls
    /\ fused["voice"].connPolls = 2
    /\ \A st \in Streams : fused[st].last = "End"


(***************************************************************************)
(* SpecShutdown: the supervisor while the application goes away.  The      *)
(* supervisor task keeps being scheduled.                                  *)
(***************************************************************************)
ShutdownEnv ==
    [kinds |-> {"Hello", "Ready", "HeartbeatAck", "Other", "ErrClose"},
     un |-> {}, wire |-> MaxShutdownWire]

NextShutdown ==
    \/ Build
    \/ Dial
    \/ ReadHello(ShutdownEnv)
    \/ ReadFirst(ShutdownEnv)
    \/ SeedUser
    \/ FlushUser
    \/ SeedApp
    \/ FlushApp
    \/ Sleep
    \/ Read(ShutdownEnv)
    \/ AppSeedRecv
    \/ AppShutdown

SpecShutdown ==
    Init /\ [][NextShutdown]_vars /\ WF_vars(NextShutdown) /\ WF_vars(Sleep)
        /\ WF_vars(Build)

\* C7: once the application has signaled shutdown the supervisor makes no
\* further connect attempt and eventually leaves its reconnect loop (pc =
\* "done": start_discord has returned, which ends the application's stream).
C7_ShutdownEndsSupervisor ==
    /\ [][shutdown => ~(pc = "build" /\ pc' = "dial")]_vars
    /\ shutdown ~> pc = "done"


(***************************************************************************)
(* The voice plane: voice::Connection, its gateway task and its socket     *)
(* task (src/src/voice/connection.rs, gateway.rs, socket.rs).              *)
(***************************************************************************)
\* the Ready payloads a voice server may answer Identify with: the modes it
\* offers, the ssrc, and whether its ip:port resolves to a socket address
Modes == {{ENCRYPTION_MODE, "xsalsa20_poly1305_lite"},
          {"xsalsa20_poly1305_lite"}, {}}

Ssrcs == {<<0, 1>>, <<43981, 61185>>}

Keys == {1, 2}

Readies(env) ==
    [modes : env.modes, ssrc : env.ssrcs, resolves : BOOLEAN]

\* the address a datagram comes from
Server == "server"

\* Connection::connect_params
connect_params(c) ==
    IF c.session_id # None /\ c.token # None /\ c.endpoint # None
    THEN Some([session_id |-> c.session_id[1], token |-> c.token[1],
               endpoint |-> c.endpoint[1]])
    ELSE None

\* Connection::ssrc
ssrc(c) == IF c.ready # None THEN c.ready[1].ssrc ELSE <<0, 0>>

\* the Connection is dropped: run() has returned or its task has panicked
Dropped(c) ==
    [c EXCEPT !.running = FALSE, !.gw_controller = FALSE,
              !.sock_controller = FALSE]

\* Socket::new followed by Socket::spawn
Socket_new(ready) ==
    [SocketNone EXCEPT !.pc = "discover", !.addr = Some(Server),
                       !.ssrc = ready.ssrc]

\* Gateway::spawn
Gateway_spawn(resume) ==
    [GatewayNone EXCEPT !.pc = "connect", !.resume = resume]

\* the `match self.state` that closes an iteration of Connection::run
RunMatch(c, g, s) ==
    IF c.state = "Idle" /\ connect_params(c) # None
    THEN [conn |-> [c EXCEPT !.gw_controller = TRUE, !.state = "Connecting"],
          gw |-> Gateway_spawn(c.ready # None),
          sock |-> s]
    ELSE IF c.state = "Connected" /\ ~c.sock_controller
    THEN IF c.ready[1].resolves
         THEN [conn |-> [c EXCEPT !.sock_controller = TRUE],
               gw |-> g,
               sock |-> Socket_new(c.ready[1])]
         ELSE [conn |-> Dropped(c), gw |-> g, sock |-> s]
    ELSE [conn |-> c, gw |-> g, sock |-> s]

\* the iteration ends in the match, or the loop was left by `break`
Iteration(continue, c, g, s) ==
    LET m == IF continue THEN RunMatch(c, g, s)
             ELSE [conn |-> Dropped(c), gw |-> g, sock |-> s]
    IN  /\ conn' = m.conn
        /\ gw' = m.gw
        /\ sock' = m.sock

\* mpsc::Sender::try_send and send on the socket's control channel:
\* refused when the socket task is over
SocketControl(s, control) ==
    IF s.pc \in {"discover", "write"}
    THEN [s EXCEPT !.control_recv = Append(@, control)]
    ELSE s

\* Connection::control, handing a frame on whether or not the address of
\* the socket has been discovered
control_bug_forwards_early(c, s, ctl) ==
    CASE ctl.kind = "Session" ->
            [conn |-> [c EXCEPT !.session_id = Some(ctl.v)], sock |-> s]
      [] ctl.kind = "Token" ->
            [conn |-> [c EXCEPT !.token = Some(ctl.v)], sock |-> s]
      [] ctl.kind = "Endpoint" ->
            [conn |-> [c EXCEPT !.endpoint = ctl.v], sock |-> s]
      [] ctl.kind = "VoiceFrame" ->
            IF c.sock_controller
            THEN [conn |-> c, sock |-> SocketControl(s, ctl)]
            ELSE [conn |-> c, sock |-> s]

\* Connection::control
control(c, s, ctl) ==
    CASE ctl.kind = "Session" ->
            [conn |-> [c EXCEPT !.session_id = Some(ctl.v)], sock |-> s]
      [] ctl.kind = "Token" ->
            [conn |-> [c EXCEPT !.token = Some(ctl.v)], sock |-> s]
      [] ctl.kind = "Endpoint" ->
            [conn |-> [c EXCEPT !.endpoint = ctl.v], sock |-> s]
      [] ctl.kind = "VoiceFrame" ->
            IF c.external_addr = None THEN [conn |-> c, sock |-> s]
            ELSE IF c.sock_controller
            THEN [conn |-> c, sock |-> SocketControl(s, ctl)]
            ELSE [conn |-> c, sock |-> s]

\* the controls the owner of the connection can send
Controls ==
    {[kind |-> "Session", v |-> 1], [kind |-> "Token", v |-> 1],
     [kind |-> "Endpoint", v |-> Some(1)], [kind |-> "Endpoint", v |-> None],
     [kind |-> "VoiceFrame", v |-> conn.controls + 1]}

\* Connection::run, the control_recv arm: a control is received
ConnControl ==
    /\ conn.running
    /\ conn.controller
    /\ conn.controls < MaxControls
    /\ \E ctl \in Controls :
          LET r == control([conn EXCEPT !.controls = @ + 1], sock, ctl)
          IN  Iteration(TRUE, r.conn, gw, r.sock)
    /\ UNCHANGED <<outsideVoice, listener, datagrams>>

\* the owner drops its Controller
ControllerDrop ==
    /\ conn.controller
    /\ conn' = [conn EXCEPT !.controller = FALSE]
    /\ UNCHANGED <<outsideVoice, gw, sock, listener, datagrams>>

\* Connection::run, the control_recv arm: the channel has ended
ConnControllerShutdown ==
    /\ conn.running
    /\ ~conn.controller
    /\ Iteration(FALSE, conn, gw, sock)
    /\ UNCHANGED <<outsideVoice, listener, datagrams>>

\* voice::Event::is_ready_kind
is_ready_kind(e) == e.kind \in {"Ready", "Resumed"}

\* a Ready that accepts every list of modes
mode_supported_bug_any(ready) == TRUE

\* Connection::event, the test of Ready.modes
mode_supported(ready) == \E x \in ready.modes : x = ENCRYPTION_MODE

\* Connection::event: the value it returns, the connection it leaves, the
\* key it hands to the socket and what it reports to the listener
event(c, e) ==
    LET rejected ==
            \/ e.kind = "Ready" /\ ~mode_supported(e.ready)
            \/ /\ e.kind = "SessionDescription"
               /\ c.sock_controller
               /\ e.mode # ENCRYPTION_MODE
        c1 == IF e.kind = "Ready" THEN [c EXCEPT !.ready = Some(e.ready)]
              ELSE c
        keyed == e.kind = "SessionDescription" /\ c.sock_controller
        connected ==
            c1.state = "Connecting" /\ is_ready_kind(e) /\ c1.ready # None
    IN  IF rejected
        THEN [ret |-> FALSE, conn |-> c, secret_key |-> None,
              reports |-> <<>>]
        ELSE [ret |-> TRUE,
              conn |-> IF connected THEN [c1 EXCEPT !.state = "Connected"]
                       ELSE c1,
              secret_key |-> IF keyed THEN Some(e.secret_key) ELSE None,
              reports |-> (IF keyed THEN <<"Ready">> ELSE <<>>)
                          \o (IF connected THEN <<"Connected">> ELSE <<>>)]

\* Connection::run, the gw_event_recv arm: an event is received
ConnEvent ==
    /\ conn.running
    /\ gw.event_recv # <<>>
    /\ LET r == event(conn, Head(gw.event_recv))
           s == IF r.secret_key = None THEN sock
                ELSE SocketControl(sock, [kind |-> "SecretKey",
                                           v |-> r.secret_key[1]])
       IN  /\ Iteration(r.ret, r.conn,
                        [gw EXCEPT !.event_recv = Tail(@)], s)
           /\ listener' = listener \o r.reports
    /\ UNCHANGED <<outsideVoice, datagrams>>

\* the gateway task no longer holds the sender of its event channel
GatewayClosed ==
    gw.pc = "ended" \/ gw.reader = "ended"

\* Connection::run, the gw_event_recv arm: the channel has ended
ConnGatewayShutdown ==
    /\ conn.running
    /\ gw.event_recv = <<>>
    /\ GatewayClosed
    /\ Iteration(FALSE, conn, gw, sock)
    /\ UNCHANGED <<outsideVoice, listener, datagrams>>

\* Controller::select_protocol followed by Controller::speaking: refused
\* when the writer of the gateway task is over
GatewayCommands(g, cmds) ==
    IF g.pc = "connect" \/ g.writer = "run"
    THEN [g EXCEPT !.command_recv = @ \o cmds]
    ELSE g

\* Connection::socket_event
socket_event(c, g, e) ==
    IF e.kind = "AddrDiscovery" /\ c.external_addr = None
    THEN [conn |-> [c EXCEPT !.external_addr = Some(e.addr)],
          gw |-> IF c.gw_controller
                 THEN GatewayCommands(g,
                        <<[kind |-> "SelectProtocol", addr |-> e.addr,
                           mode |-> ENCRYPTION_MODE],
                          [kind |-> "Speaking", ssrc |-> ssrc(c),
                           priority |-> FALSE]>>)
                 ELSE g]
    ELSE [conn |-> c, gw |-> g]

\* Connection::run, the sock_event_recv arm: an event is received
ConnSocketEvent ==
    /\ conn.running
    /\ sock.event_recv # <<>>
    /\ LET r == socket_event(conn, gw, Head(sock.event_recv))
       IN  Iteration(TRUE, r.conn, r.gw,
                     [sock EXCEPT !.event_recv = Tail(@)])
    /\ UNCHANGED <<outsideVoice, listener, datagrams>>

\* Connection::run, the sock_event_recv arm: the channel has ended
ConnSocketShutdown ==
    /\ conn.running
    /\ sock.event_recv = <<>>
    /\ sock.pc = "ended"
    /\ Iteration(FALSE, conn, gw, sock)
    /\ UNCHANGED <<outsideVoice, listener, datagrams>>

(***************************************************************************)
(* The voice gateway task: connect, then read and write joined.            *)
(***************************************************************************)
\* Gateway::connect and the head of connect(): the handshake fails, or it
\* yields Resumed (resume) or the Ready that answers Identify
GwConnect(env) ==
    /\ gw.pc = "connect"
    /\ \/ gw' = [gw EXCEPT !.pc = "ended"]
       \/ \E ready \in Readies(env) :
             LET e == IF gw.resume THEN [kind |-> "Resumed"]
                      ELSE [kind |-> "Ready", ready |-> ready]
             IN  gw' = [gw EXCEPT
                          !.pc = "run", !.reader = "run", !.writer = "run",
                          !.handshake = Some(e),
                          !.event_recv = IF conn.running THEN Append(@, e)
                                         ELSE @]
    /\ UNCHANGED <<outsideVoice, conn, sock, listener, datagrams>>

\* what the reader of the gateway task can get from the server
ServerItems(env) ==
    {[kind |-> "Ready", ready |-> r] : r \in Readies(env)}
        \cup {[kind |-> "SessionDescription", mode |-> m, secret_key |-> k] :
                m \in {ENCRYPTION_MODE, "xsalsa20_poly1305_lite"},
                k \in env.keys}
        \cup {[kind |-> k] :
                k \in {"Speaking", "HeartbeatAck", "ErrOther", "ErrClose",
                       "End"}}

\* read(): one turn of its loop
GwRead(env) ==
    /\ gw.reader = "run"
    /\ gw.events < env.events
    /\ \E item \in ServerItems(env) :
          gw' = [gw EXCEPT
                   !.events = @ + 1,
                   !.reader =
                       IF \/ item.kind \in {"ErrClose", "End"}
                          \/ /\ item.kind \notin {"ErrOther", "HeartbeatAck"}
                             /\ ~conn.running
                       THEN "ended" ELSE @,
                   !.event_recv =
                       IF /\ item.kind \notin {"ErrOther", "HeartbeatAck",
                                               "ErrClose", "End"}
                          /\ conn.running
                       THEN Append(@, item) ELSE @]
    /\ UNCHANGED <<outsideVoice, conn, sock, listener, datagrams>>

\* write(): one turn of its loop, a command of the connection
GwWriteCommand ==
    /\ gw.writer = "run"
    /\ gw.command_recv # <<>>
    /\ \E ok \in BOOLEAN :
          gw' = [gw EXCEPT
                   !.command_recv = Tail(@),
                   !.written = IF ok THEN Append(@, Head(gw.command_recv))
                               ELSE @,
                   !.writer = IF ok THEN @ ELSE "ended"]
    /\ UNCHANGED <<outsideVoice, conn, sock, listener, datagrams>>

\* write(): one turn of its loop, a heartbeat
GwWriteHeartbeat ==
    /\ gw.writer = "run"
    /\ gw.count < MaxVoiceBeats
    /\ \E ok \in BOOLEAN :
          gw' = [gw EXCEPT
                   !.count = @ + 1,
                   !.written = IF ok
                               THEN Append(@, [kind |-> "Heartbeat",
                                               count |-> gw.count + 1])
                               ELSE @,
                   !.writer = IF ok THEN @ ELSE "ended"]
    /\ UNCHANGED <<outsideVoice, conn, sock, listener, datagrams>>

\* write(): the command channel has ended, the gateway is closed
GwWriteEnds ==
    /\ gw.writer = "run"
    /\ gw.command_recv = <<>>
    /\ ~conn.gw_controller
    /\ gw' = [gw EXCEPT !.writer = "ended"]
    /\ UNCHANGED <<outsideVoice, conn, sock, listener, datagrams>>

(***************************************************************************)
(* The voice socket task: IP discovery, then the writer and the reader.    *)
(***************************************************************************)
\* ASCII codes of the characters the discovery texts are written in
Code ==
    [c \in {"0", "1", "2", "3", "4", "5", "6", "7", "8", "9"} |->
        CASE c = "0" -> 48 [] c = "1" -> 49 [] c = "2" -> 50 [] c = "3" -> 51
          [] c = "4" -> 52 [] c = "5" -> 53 [] c = "6" -> 54 [] c = "7" -> 55
          [] c = "8" -> 56 [] c = "9" -> 57]
        @@ ("." :> 46) @@ (":" :> 58) @@ ("x" :> 120)

Text(chars) == [i \in 1..Len(chars) |-> Code[chars[i]]]

\* slice.split(|&v| v == sep).next(): the bytes before the first sep
RECURSIVE FirstField(_, _)
FirstField(bytes, sep) ==
    IF bytes = <<>> \/ Head(bytes) = sep THEN <<>>
    ELSE <<Head(bytes)>> \o FirstField(Tail(bytes), sep)

\* str::split(sep): the fields between the separators
RECURSIVE Split(_, _)
Split(bytes, sep) ==
    LET first == FirstField(bytes, sep)
    IN  IF Len(first) = Len(bytes) THEN <<first>>
        ELSE <<first>> \o Split(SubSeq(bytes, Len(first) + 2, Len(bytes)), sep)

\* std::str::from_utf8 accepts the text (the texts drawn are ASCII or hold
\* the byte 0xFF, which no UTF-8 text holds)
from_utf8(bytes) == \A i \in 1..Len(bytes) : bytes[i] < 128

IsDigits(f) == \A i \in 1..Len(f) : f[i] \in 48..57

RECURSIVE Decimal(_)
Decimal(f) ==
    IF f = <<>> THEN 0
    ELSE 10 * Decimal(SubSeq(f, 1, Len(f) - 1)) + (f[Len(f)] - 48)

\* one octet of an Ipv4Addr: one to three digits, no leading zero, at most 255
IsOctet(f) ==
    /\ Len(f) \in 1..3
    /\ IsDigits(f)
    /\ (Len(f) > 1 => f[1] # 48)
    /\ Decimal(f) <= 255

\* format!("{}:{}", ip, port).parse::<SocketAddr>() for a text without
\* brackets: a dotted quad and the port
parse(ip, port) ==
    LET fields == Split(ip, 46)
    IN  IF Len(fields) = 4 /\ \A i \in 1..4 : IsOctet(fields[i])
        THEN Some([ip |-> [i \in 1..4 |-> Decimal(fields[i])], port |-> port])
        ELSE None

\* UdpSocket::recv_from into a buffer of n bytes: the datagram, cut to n
recv_from(data, n) == SubSeq(data, 1, IF Len(data) < n THEN Len(data) ELSE n)

\* the discovery request: type 1, length 70, the ssrc, in a zeroed buffer
DiscoveryBuf(s) ==
    copy_from_slice(Zeros(128), be_u16(1) \o be_u16(70) \o be_u32(s))

\* Socket::run from recv_from to the parse of the address: the address to
\* emit, or None when run returns early
Discover_bug_any_peer(s, addr, reply) ==
    IF reply.from = "timeout" \/ reply.from = "error" THEN None
    ELSE LET data == recv_from(reply.data, 128)
             buf == copy_from_slice(DiscoveryBuf(s), data)
             len == Len(data)
             ip == FirstField(SubSeq(buf, 9, 72), 0)
         IN  IF read_u16(SubSeq(buf, 1, 2)) # 2 THEN None
             ELSE IF len < 74 THEN None
             ELSE IF ~from_utf8(ip) THEN None
             ELSE parse(ip, read_u16(SubSeq(buf, 73, 74)))

Discover(s, addr, reply) ==
    IF reply.from = "timeout" \/ reply.from = "error" THEN None
    ELSE LET data == recv_from(reply.data, 128)
             buf == copy_from_slice(DiscoveryBuf(s), data)
             len == Len(data)
             ip == FirstField(SubSeq(buf, 9, 72), 0)
         IN  IF Some(reply.from) # addr THEN None
             ELSE IF read_u16(SubSeq(buf, 1, 2)) # 2 THEN None
             ELSE IF len < 74 THEN None
             ELSE IF ~from_utf8(ip) THEN None
             ELSE parse(ip, read_u16(SubSeq(buf, 73, 74)))

\* write(): the state of its locals before the first control
WriterStart(s) ==
    [s EXCEPT !.pc = "write", !.sequence = 0, !.timestamp = <<0, 0>>,
              !.cipher = None, !.nonce = Zeros(24),
              !.packet = <<128, 120>> \o Zeros(6) \o be_u32(s.ssrc)]

\* Socket::run up to the select of reader and writer
SockDiscover(env) ==
    /\ sock.pc = "discover"
    /\ \E reply \in env.replies :
          LET found == Discover(sock.ssrc, sock.addr, reply)
              s == [sock EXCEPT !.reply = Some(reply)]
          IN  IF found # None /\ conn.running
              THEN sock' = [WriterStart(s) EXCEPT
                              !.emitted = Append(@, found[1]),
                              !.event_recv =
                                  Append(@, [kind |-> "AddrDiscovery",
                                             addr |-> found[1]])]
              ELSE sock' = [s EXCEPT !.pc = "ended", !.control_recv = <<>>]
    /\ UNCHANGED <<outsideVoice, conn, gw, listener, datagrams>>

\* write(), a frame while no key is installed, with counters that advance
WithoutKey_bug_advances(s) ==
    [s EXCEPT !.discarded = @ + 1,
              !.sequence = wrapping_add_u16(@, 1),
              !.timestamp = wrapping_add_u32(@, 960)]

\* write(), a frame while no key is installed: it is discarded
WithoutKey(s) == [s EXCEPT !.discarded = @ + 1]

\* write(), "Prepare nonce", copying the header without its ssrc
PrepareNonce_bug_without_ssrc(nonce, packet) ==
    copy_from_slice(nonce, SubSeq(packet, 1, 8))

\* write(), "Prepare nonce"
PrepareNonce(nonce, packet) ==
    copy_from_slice(nonce, SubSeq(packet, 1, 12))

\* write(), "Prepare packet" and "Prepare nonce"
Prepare(s) ==
    LET packet == copy_from_slice(s.packet,
                      <<128, 120>> \o be_u16(s.sequence)
                          \o be_u32(s.timestamp))
    IN  [s EXCEPT !.packet = packet, !.nonce = PrepareNonce(@, packet)]

\* write(), after send_to
Advance(s) ==
    [s EXCEPT !.sent = @ + 1,
              !.sequence = wrapping_add_u16(@, 1),
              !.timestamp = wrapping_add_u32(@, 960)]

\* write(): one turn of its loop
SockWrite ==
    /\ sock.pc = "write"
    /\ sock.control_recv # <<>>
    /\ LET ctl == Head(sock.control_recv)
           s == [sock EXCEPT !.control_recv = Tail(@)]
       IN  IF ctl.kind = "SecretKey"
           THEN /\ sock' = [s EXCEPT !.cipher = Some(ctl.v)]
                /\ UNCHANGED datagrams
           ELSE IF s.cipher = None
           THEN /\ sock' = WithoutKey(s)
                /\ UNCHANGED datagrams
           ELSE LET p == Prepare(s)
                IN  \/ /\ sock' = Advance(p)
                       /\ datagrams' =
                             Append(datagrams,
                                    [n |-> p.sent, to |-> p.addr[1],
                                     header |-> p.packet, nonce |-> p.nonce,
                                     key |-> p.cipher[1], frame |-> ctl.v])
                    \/ /\ sock' = [p EXCEPT !.pc = "ended",
                                            !.control_recv = <<>>]
                       /\ UNCHANGED datagrams
    /\ UNCHANGED <<outsideVoice, conn, gw, listener>>

\* write(): the control channel has ended
SockWriteEnds ==
    /\ sock.pc = "write"
    /\ sock.control_recv = <<>>
    /\ ~conn.sock_controller
    /\ sock' = [sock EXCEPT !.pc = "ended"]
    /\ UNCHANGED <<outsideVoice, conn, gw, listener, datagrams>>

\* read(): one turn of its loop, a datagram or an error of the socket
SockRead ==
    /\ sock.pc = "write"
    /\ Len(sock.event_recv) < MaxVoiceRecv
    /\ \E ok \in BOOLEAN :
          sock' = IF ok /\ conn.running
                  THEN [sock EXCEPT !.event_recv =
                                        Append(@, [kind |-> "VoiceFrame",
                                                   addr |-> None])]
                  ELSE [sock EXCEPT !.pc = "ended", !.control_recv = <<>>]
    /\ UNCHANGED <<outsideVoice, conn, gw, listener, datagrams>>

(***************************************************************************)
(* SpecVoice: one voice connection from Connection::new on, with the       *)
(* gateway task and the socket task it spawns.                             *)
(***************************************************************************)
\* the text of the example address and the replies to the discovery request
ExampleIp == Text(<<"2", "0", "3", ".", "0", ".", "1", "1", "3", ".", "7">>)

\* a reply of len bytes: type, length, ssrc, the 64-byte address field, the
\* port and zero bytes after it
Reply(from, ty, ip, port, len) ==
    [from |-> from,
     data |-> SubSeq(be_u16(ty) \o be_u16(70) \o Zeros(4)
                        \o copy_from_slice(Zeros(64), ip) \o port
                        \o Zeros(64), 1, len)]

NoReply(why) == [from |-> why, data |-> <<>>]

VoiceReplies ==
    {Reply(Server, 2, ExampleIp, <<31, 144>>, 74),
     Reply("other", 2, ExampleIp, <<31, 144>>, 74),
     NoReply("timeout")}

\* the voice server of SpecVoice
VoiceEnv ==
    [modes |-> Modes, ssrcs |-> {<<0, 1>>}, keys |-> {1},
     replies |-> VoiceReplies, events |-> MaxVoiceEvents]

NextVoice ==
    \/ ConnControl
    \/ ControllerDrop
    \/ ConnControllerShutdown
    \/ ConnEvent
    \/ ConnGatewayShutdown
    \/ ConnSocketEvent
    \/ ConnSocketShutdown
    \/ GwConnect(VoiceEnv)
    \/ GwRead(VoiceEnv)
    \/ GwWriteCommand
    \/ GwWriteHeartbeat
    \/ GwWriteEnds
    \/ SockDiscover(VoiceEnv)
    \/ SockWrite
    \/ SockWriteEnds
    \/ SockRead

SpecVoice == Init /\ [][NextVoice]_vars

\* the Ready that answered Identify on the voice gateway lacks the mode
ReadyLacksMode ==
    /\ gw.handshake # None
    /\ gw.handshake[1].kind = "Ready"
    /\ ENCRYPTION_MODE \notin gw.handshake[1].ready.modes

\* the commands handed to the voice gateway, written or still queued
GatewayCommandKinds ==
    {gw.command_recv[i].kind : i \in 1..Len(gw.command_recv)}
        \cup {gw.written[i].kind : i \in 1..Len(gw.written)}

\* C12: when the Ready of the voice gateway does not list xsalsa20_poly1305
\* in its modes, the run loop of the voice connection ends on that Ready (it
\* runs only while the Ready is still the next event to take), no socket is
\* opened, Connected is never reported and neither SelectProtocol nor
\* Speaking is ever handed to that gateway.
C12_ReadyWithoutModeTearsDown ==
    ReadyLacksMode =>
        /\ conn.running =>
              /\ gw.event_recv # <<>>
              /\ Head(gw.event_recv) = gw.handshake[1]
        /\ conn.state # "Connected"
        /\ conn.ready = None
        /\ ~conn.sock_controller
        /\ sock = SocketNone
        /\ \A i \in 1..Len(listener) : listener[i] # "Connected"
        /\ GatewayCommandKinds \cap {"SelectProtocol", "Speaking"} = {}

\* the run loop has ended on the Ready that lacks the mode: the controller
\* is still held, the gateway reader still runs and no socket exists
C12_Witness ==
    /\ ReadyLacksMode
    /\ ~conn.running
    /\ conn.controller
    /\ gw.reader = "run"
    /\ gw.event_recv = <<>>
    /\ sock.pc = "none"


(***************************************************************************)
(* SpecSocket: one voice socket task with its Controller and its Listener, *)
(* from Socket::spawn on.  The writer is also entered where it stands      *)
(* after the datagrams that precede a wrap of its counters.                *)
(***************************************************************************)
\* socket::Controller::secret_key
SockSecretKey ==
    /\ conn.sock_controller
    /\ Len(datagrams) + sock.discarded + Len(sock.control_recv) < MaxSockControls
    /\ \E k \in Keys :
          sock' = SocketControl(sock, [kind |-> "SecretKey", v |-> k])
    /\ UNCHANGED <<outsideVoice, conn, gw, listener, datagrams>>

\* socket::Controller::voice_frame
SockVoiceFrame ==
    /\ conn.sock_controller
    /\ Len(datagrams) + sock.discarded + Len(sock.control_recv) < MaxSockControls
    /\ sock' = SocketControl(sock, [kind |-> "VoiceFrame", v |-> 0])
    /\ UNCHANGED <<outsideVoice, conn, gw, listener, datagrams>>

\* k * n modulo 2^32 as a u32, for k below 2^15
TimesU32(k, n) ==
    LET low == k * (n % 2^16)
    IN  <<(k * (n \div 2^16) + low \div 2^16) % 2^16, low % 2^16>>

\* replies to the discovery request, and its failures
SocketReplies ==
    {Reply(Server, 2, ExampleIp, <<31, 144>>, 74),
     Reply(Server, 2, ExampleIp, <<31, 144>>, 130),
     Reply(Server, 2, ExampleIp \o <<0>> \o Text(<<"x", "x">>), <<0, 80>>, 74),
     Reply("other", 2, ExampleIp, <<31, 144>>, 74),
     Reply(Server, 1, ExampleIp, <<31, 144>>, 74),
     Reply(Server, 514, ExampleIp, <<31, 144>>, 74),
     Reply(Server, 2, ExampleIp, <<31, 144>>, 73),
     Reply(Server, 2, ExampleIp, <<31, 144>>, 1),
     Reply(Server, 2, ExampleIp, <<31, 144>>, 0),
     Reply(Server, 2, <<>>, <<31, 144>>, 74),
     Reply(Server, 2, Text(<<"2", "5", "6", ".", "0", ".", "0", ".", "1">>),
           <<31, 144>>, 74),
     Reply(Server, 2, Text(<<"1", ".", "2", ".", "3">>), <<31, 144>>, 74),
     Reply(Server, 2, Text(<<"1", ":", ":", "1">>), <<31, 144>>, 74),
     Reply(Server, 2, [i \in 1..64 |-> 49], <<31, 144>>, 74),
     Reply(Server, 2, <<49, 255>>, <<31, 144>>, 74),
     NoReply("timeout"), NoReply("error")}

SocketEnv ==
    [modes |-> Modes, ssrcs |-> Ssrcs, keys |-> Keys,
     replies |-> SocketReplies]

\* numbers of datagrams sent after which the writer is entered: none, and
\* the last two before the u16 and before the u32 counter wraps (2^32 / 960
\* is 2^26 / 15)
StartPoints == {0, 2^16 - 2, 2^26 \div 15 - 1}

\* the connection that has just opened its socket
ConnectedWith(ready) ==
    [ConnectionNew EXCEPT !.session_id = Some(1), !.token = Some(1),
                          !.endpoint = Some(1), !.ready = Some(ready),
                          !.state = "Connected", !.gw_controller = TRUE,
                          !.sock_controller = TRUE, !.controls = 3]

\* its gateway task, whose handshake has returned that Ready
GatewayWith(ready) ==
    [Gateway_spawn(FALSE) EXCEPT
        !.pc = "run", !.reader = "run", !.writer = "run",
        !.handshake = Some([kind |-> "Ready", ready |-> ready])]

\* the socket task in write() when n datagrams have been sent after the
\* example reply: the counters of the n-th turn, the packet and the nonce
\* of the turn before it
WriterAfter(ready, n) ==
    LET found == Discover(ready.ssrc, Some(Server),
                          Reply(Server, 2, ExampleIp, <<31, 144>>, 74))
        s0 == [WriterStart(Socket_new(ready)) EXCEPT
                  !.reply = Some(Reply(Server, 2, ExampleIp, <<31, 144>>, 74)),
                  !.emitted = found,
                  !.cipher = Some(1),
                  !.sent = n - 1,
                  !.sequence = (n - 1) % 2^16,
                  !.timestamp = TimesU32(960, n - 1)]
    IN  Advance(Prepare(s0))

InitSocket ==
    /\ SessionInit
    /\ \E ready \in {r \in Readies(SocketEnv) :
                        r.resolves /\ mode_supported(r)} :
          /\ conn = ConnectedWith(ready)
          /\ gw = GatewayWith(ready)
          /\ \E n \in StartPoints :
                sock = [(IF n = 0 THEN Socket_new(ready)
                         ELSE WriterAfter(ready, n)) EXCEPT !.start = n]
    /\ listener = <<"Connected">>
    /\ datagrams = <<>>
    /\ ProjectionInit
    /\ CallsInit

NextSocket ==
    \/ SockDiscover(SocketEnv)
    \/ SockSecretKey
    \/ SockVoiceFrame
    \/ SockWrite
    \/ SockWriteEnds
    \/ SockRead
    \/ ConnSocketEvent
    \/ ControllerDrop
    \/ ConnControllerShutdown

SpecSocket == InitSocket /\ [][NextSocket]_vars

\* the opened socket of SpecSocket is a state of SpecVoice
SocketOpened ==
    /\ conn.state = "Connected"
    /\ conn.sock_controller
    /\ sock.pc = "discover"
    /\ conn = ConnectedWith(conn.ready[1])
    /\ gw = GatewayWith(conn.ready[1])
    /\ sock = Socket_new(conn.ready[1])
    /\ listener = <<"Connected">>

\* the header of the n-th datagram of a socket
Header(n, s) ==
    <<128, 120>> \o be_u16(n % 2^16) \o be_u32(TimesU32(960, n)) \o be_u32(s)

\* C13: the n-th datagram the writer sends (n from 0) carries sequence
\* n mod 2^16 and timestamp 960 n mod 2^32, and the counters of the writer
\* stand at the number of datagrams sent, whatever frames it discarded for
\* want of a key.
C13_CountersFollowDatagrams ==
    /\ \A i \in 1..Len(datagrams) :
          /\ datagrams[i].n = sock.start + i - 1
          /\ SubSeq(datagrams[i].header, 3, 4) = be_u16(datagrams[i].n % 2^16)
          /\ SubSeq(datagrams[i].header, 5, 8)
                = be_u32(TimesU32(960, datagrams[i].n))
    /\ sock.pc = "write" =>
          /\ sock.sent = sock.start + Len(datagrams)
          /\ sock.sequence = sock.sent % 2^16
          /\ sock.timestamp = TimesU32(960, sock.sent)

\* a frame was discarded for want of a key, then two datagrams were sent:
\* the second carries sequence 1 and timestamp 960
C13_Witness ==
    /\ sock.start = 0
    /\ sock.discarded >= 1
    /\ Len(datagrams) = 2
    /\ SubSeq(datagrams[2].header, 3, 8) = <<0, 1, 0, 0, 3, 192>>
    /\ sock.sequence = 2

\* C14: the nonce of every datagram is its own 12-byte header (0x80, 0x78,
\* its sequence, its timestamp, the ssrc) followed by 12 zero bytes, and
\* datagrams with different headers have different nonces.
C14_NonceIsHeader ==
    /\ \A i \in 1..Len(datagrams) :
          /\ datagrams[i].header = Header(datagrams[i].n, sock.ssrc)
          /\ datagrams[i].nonce = datagrams[i].header \o Zeros(12)
    /\ \A i, j \in 1..Len(datagrams) :
          datagrams[i].header # datagrams[j].header
              => datagrams[i].nonce # datagrams[j].nonce

\* two datagrams of a socket whose ssrc has no zero byte were sent
C14_Witness ==
    /\ Len(datagrams) >= 2
    /\ sock.ssrc = <<43981, 61185>>
    /\ sock.start = 0
    /\ datagrams[2].nonce = <<128, 120, 0, 1, 0, 0, 3, 192, 171, 205, 239, 1>>
                               \o Zeros(12)

\* decimal digits of a number below 1000, and the text of an address
Digits(v) ==
    (IF v >= 100 THEN <<48 + (v \div 100)>> ELSE <<>>)
        \o (IF v >= 10 THEN <<48 + ((v \div 10) % 10)>> ELSE <<>>)
        \o <<48 + (v % 10)>>

Dotted(ip) ==
    Digits(ip[1]) \o <<46>> \o Digits(ip[2]) \o <<46>> \o Digits(ip[3])
        \o <<46>> \o Digits(ip[4])

\* the reply is one an address may be taken from
Acceptable(reply) ==
    /\ reply.from = Server
    /\ Len(reply.data) >= 74
    /\ reply.data[1] = 0
    /\ reply.data[2] = 2

\* C20: the socket emits at most one AddrDiscovery, only for a reply from
\* the advertised address with type 2 and at least 74 bytes, whose address
\* is the text before the first NUL of bytes 8..72 and the big-endian u16 of
\* bytes 72..74; after any other reply, or none, the task is over, nothing
\* was emitted and no datagram was sent.
C20_AddrDiscovery ==
    /\ Len(sock.emitted) <= 1
    /\ sock.emitted # <<>> =>
          /\ sock.reply # None
          /\ Acceptable(sock.reply[1])
          /\ Dotted(sock.emitted[1].ip)
                = FirstField(SubSeq(sock.reply[1].data, 9, 72), 0)
          /\ sock.emitted[1].port
                = 256 * sock.reply[1].data[73] + sock.reply[1].data[74]
    /\ (sock.reply # None /\ ~Acceptable(sock.reply[1])) =>
          /\ sock.pc = "ended"
          /\ sock.emitted = <<>>
          /\ datagrams = <<>>
    /\ (sock.reply # None
            /\ sock.reply[1] = Reply(Server, 2, ExampleIp, <<31, 144>>, 74)
            /\ sock.pc # "ended") =>
          sock.emitted = <<[ip |-> <<203, 0, 113, 7>>, port |-> 8080]>>
    /\ \A i \in 1..Len(sock.event_recv) :
          sock.event_recv[i].kind = "AddrDiscovery" => i = 1

\* C24: after a discovery reply whose bytes 4..8 are not the ssrc of the
\* voice session no address has been emitted and the socket task is over.
C24_SsrcMismatchRejected ==
    (/\ sock.reply # None
     /\ Len(sock.reply[1].data) >= 8
     /\ SubSeq(sock.reply[1].data, 5, 8) # be_u32(sock.ssrc)) =>
        /\ sock.emitted = <<>>
        /\ sock.pc = "ended"

\* the example reply was received on a fresh socket: the writer runs and
\* 203.0.113.7:8080 has been emitted and taken by the connection
C20_Witness ==
    /\ sock.start = 0
    /\ sock.pc = "write"
    /\ sock.reply = Some(Reply(Server, 2, ExampleIp, <<31, 144>>, 74))
    /\ sock.emitted = <<[ip |-> <<203, 0, 113, 7>>, port |-> 8080]>>
    /\ conn.external_addr = Some([ip |-> <<203, 0, 113, 7>>, port |-> 8080])


(***************************************************************************)
(* SpecProjection: the state of one Guild (src/src/guild.rs) from          *)
(* Guild::new on, under the role and member events of Guild::next.         *)
(***************************************************************************)
\* the members a GuildCreate or a member event can carry
Members == [nickname : {0, 1}, roles : SUBSET RoleIds]

\* Guild::update: the roles and the members of the GuildCreate are loaded
Guild_update(st, gc) ==
    [st EXCEPT
        !.roles = [r \in RoleIds |->
                      IF r \in gc.roles THEN Some(r) ELSE st.roles[r]],
        !.members = [m \in MemberIds |->
                        IF gc.members[m] # None THEN gc.members[m]
                        ELSE st.members[m]]]

\* the GuildCreate payloads of the seed: the members hold roles of the guild
GuildCreates ==
    {gc \in [roles : SUBSET RoleIds,
             members : [MemberIds -> {None} \cup {Some(m) : m \in Members}]] :
        \A m \in MemberIds :
            gc.members[m] # None => gc.members[m][1].roles \subseteq gc.roles}

\* Guild::new
InitProjection ==
    /\ SessionInit
    /\ VoiceInit
    /\ \E gc \in GuildCreates : guildState = Guild_update(StateNew, gc)
    /\ CallsInit

\* State::update_role
update_role(st, r) == [st EXCEPT !.roles[r] = Some(r)]

\* State::delete_role
delete_role(st, id) == [st EXCEPT !.roles[id] = None]

\* State::update_member
update_member(st, id, m) == [st EXCEPT !.members[id] = Some(m)]

\* State::delete_member
delete_member(st, id) == [st EXCEPT !.members[id] = None]

\* Guild::next, GuildMemberUpdate: the first field that differs is replaced
\* (the nickname stands for the fields compared before the roles)
member_update(st, id, mu) ==
    IF st.members[id] = None THEN st
    ELSE IF mu.nickname # st.members[id][1].nickname
    THEN [st EXCEPT !.members[id] = Some([@[1] EXCEPT !.nickname = mu.nickname])]
    ELSE IF mu.roles # st.members[id][1].roles
    THEN [st EXCEPT !.members[id] = Some([@[1] EXCEPT !.roles = mu.roles])]
    ELSE st

\* the state with the event it has just applied, and the member a
\* GuildMemberUpdate carried
AppliedPayload(st, kind, id, payload) ==
    [st EXCEPT !.last = [kind |-> kind, id |-> id, payload |-> payload]]

Applied(st, kind, id) == AppliedPayload(st, kind, id, None)

\* Guild::next on GuildRoleCreate and on GuildRoleUpdate
OnGuildRoleUpdate ==
    /\ \E r \in RoleIds :
          guildState' = Applied(update_role(guildState, r), "RoleUpdate", r)
    /\ UNCHANGED outsideProjection

\* Guild::next on GuildRoleDelete
OnGuildRoleDelete ==
    /\ \E r \in RoleIds :
          guildState' = Applied(delete_role(guildState, r), "RoleDelete", r)
    /\ UNCHANGED outsideProjection

\* Guild::next on GuildMemberAdd
OnGuildMemberAdd ==
    /\ \E id \in MemberIds, m \in Members :
          guildState' = Applied(update_member(guildState, id, m),
                                "MemberJoin", id)
    /\ UNCHANGED outsideProjection

\* Guild::next on GuildMemberRemove
OnGuildMemberRemove ==
    /\ \E id \in MemberIds :
          guildState' = Applied(delete_member(guildState, id),
                                "MemberLeave", id)
    /\ UNCHANGED outsideProjection

\* Guild::next on GuildMemberUpdate
OnGuildMemberUpdate ==
    /\ \E id \in MemberIds, mu \in Members :
          guildState' = AppliedPayload(member_update(guildState, id, mu),
                                       "MemberUpdate", id, Some(mu))
    /\ UNCHANGED outsideProjection

NextProjection ==
    \/ OnGuildRoleUpdate
    \/ OnGuildRoleDelete
    \/ OnGuildMemberAdd
    \/ OnGuildMemberRemove
    \/ OnGuildMemberUpdate

SpecProjection == InitProjection /\ [][NextProjection]_vars

\* C15: when the last event applied is the GuildRoleDelete of role r, r is
\* in the role map no more and no member of the member map holds r.
C15_DeletedRoleIsGone ==
    guildState.last.kind = "RoleDelete" =>
        /\ guildState.roles[guildState.last.id] = None
        /\ \A m \in MemberIds :
              guildState.members[m] # None =>
                  guildState.last.id \notin guildState.members[m][1].roles

\* C37: when the last event applied is the GuildMemberUpdate of a member of
\* the member map, the stored member has the nickname and the role set of
\* the payload (and so the fields compared between them), however many of
\* its fields the payload changed.
C37_MemberUpdateStoresPayload ==
    (/\ guildState.last.kind = "MemberUpdate"
     /\ guildState.members[guildState.last.id] # None) =>
        guildState.members[guildState.last.id] = guildState.last.payload


(***************************************************************************)
(* SpecRest: one request of the REST client (src/src/client.rs) and the    *)
(* `optional` adapter applied to its result.                               *)
(***************************************************************************)
\* the private request methods of Client: those that decode the body and
\* those that discard it
DecodingMethods == {"get", "post", "post_multipart", "patch"}

DiscardingMethods == {"post_discard", "put", "delete"}

Statuses == {200, 204, 304, 400, 401, 403, 404, 429, 500, 502}

\* what send() gives: an error of the transport, or a response with its
\* status and a body that can be read or not, that serde_json accepts as an
\* ApiError or not, and as the value the method decodes or not
Sends ==
    {[kind |-> k, status |-> 0, readable |-> FALSE, api_error |-> FALSE,
      value |-> FALSE] : k \in {"builder", "redirect", "timeout", "other"}}
        \cup {[kind |-> "response", status |-> s, readable |-> FALSE,
               api_error |-> FALSE, value |-> FALSE] : s \in Statuses}
        \cup [kind : {"response"}, status : Statuses, readable : {TRUE},
              api_error : BOOLEAN, value : BOOLEAN]

Err(kind) == [kind |-> kind, code |-> 0]

\* impl From<reqwest::Error> for Error
From_reqwest_Error(e) ==
    IF e.kind = "builder" THEN Err("Builder")
    ELSE IF e.kind = "redirect" THEN Err("Redirect")
    ELSE IF e.kind = "timeout" THEN Err("TimedOut")
    ELSE IF e.kind = "status"
    THEN CASE e.status = 400 -> Err("BadRequest")
           [] e.status = 401 -> Err("InvalidToken")
           [] e.status = 403 -> Err("NotPermitted")
           [] e.status = 404 -> Err("NotFound")
           [] e.status = 429 -> Err("RateLimited")
           [] e.status = 502 -> Err("GatewayUnavailable")
           [] OTHER -> [kind |-> "Response", code |-> e.status]
    ELSE Err("Other")

\* Response::error_for_status_ref: an error for 4xx and 5xx
error_for_status_ref(res) == res.status \in 400..599

\* check_response_code
check_response_code(res) ==
    IF ~error_for_status_ref(res) THEN [kind |-> "Ok", code |-> 0]
    ELSE LET err == [kind |-> "status", status |-> res.status]
         IN  IF ~res.readable THEN From_reqwest_Error(err)
             ELSE IF res.api_error THEN Err("Api")
             ELSE From_reqwest_Error(err)

\* decode
decode(res) ==
    LET checked == check_response_code(res)
    IN  IF checked.kind # "Ok" THEN checked
        ELSE IF ~res.readable THEN Err("Other")
        ELSE IF res.value THEN [kind |-> "Ok", code |-> 0]
        ELSE Err("Decode")

\* Error::is_not_found
is_not_found(e) == e.kind = "NotFound"

\* OptionalResult::optional
optional(r) ==
    IF r.kind = "Ok" THEN [kind |-> "OkSome", code |-> 0]
    ELSE IF is_not_found(r) THEN [kind |-> "OkNone", code |-> 0]
    ELSE r

\* Client::get, post, post_discard, post_multipart, put, patch and delete,
\* and `optional` on what they return
Request ==
    /\ \E method \in DecodingMethods \cup DiscardingMethods, sent \in Sends :
          LET result ==
                  IF sent.kind # "response" THEN From_reqwest_Error(sent)
                  ELSE IF method \in DecodingMethods THEN decode(sent)
                  ELSE check_response_code(sent)
          IN  rest' = [method |-> method, sent |-> sent, result |-> result,
                       optional |-> optional(result)]
    /\ UNCHANGED outsideRest

NextRest ==
    \/ Request

SpecRest == Init /\ [][NextRest]_vars

\* C16: a request answered with status 404 gives Ok(None) through
\* `optional`, whatever its body holds.
C16_NotFoundIsNone ==
    (rest.sent.kind = "response" /\ rest.sent.status = 404)
        => rest.optional.kind = "OkNone"


(***************************************************************************)
(* SpecCodec: the JSON encoder of the gateway: one inbound envelope is     *)
(* decoded or one command is encoded (src/src/protocol/event.rs,           *)
(* src/src/gateway/encoder/json.rs, src/src/gateway/command.rs).           *)
(***************************************************************************)
\* {"heartbeat_interval": n} and the body of the dispatch called name
JHello(n) == J("hello", n, "", FALSE, {"heartbeat_interval"})

JBody(name) == J("body", 0, name, FALSE, {})

\* the dispatch names of Payload's visitor and the variant of each
DispatchVariant ==
    [READY |-> "Ready", RESUMED |-> "Resumed", GUILD_CREATE |-> "GuildCreate",
     MESSAGE_CREATE |-> "MessageCreate", MESSAGE_DELETE |-> "MessageDelete",
     MESSAGE_DELETE_BULK |-> "MessageDeleteBulk",
     MESSAGE_UPDATE |-> "MessageUpdate",
     GUILD_MEMBER_ADD |-> "GuildMemberAdd",
     GUILD_MEMBER_REMOVE |-> "GuildMemberRemove",
     GUILD_MEMBER_UPDATE |-> "GuildMemberUpdate",
     GUILD_ROLE_CREATE |-> "GuildRoleCreate",
     GUILD_ROLE_DELETE |-> "GuildRoleDelete",
     GUILD_ROLE_UPDATE |-> "GuildRoleUpdate",
     CHANNEL_CREATE |-> "ChannelCreate", CHANNEL_DELETE |-> "ChannelDelete",
     CHANNEL_UPDATE |-> "ChannelUpdate",
     MESSAGE_REACTION_ADD |-> "MessageReactionAdd",
     MESSAGE_REACTION_REMOVE |-> "MessageReactionRemove",
     MESSAGE_REACTION_REMOVE_ALL |-> "MessageReactionRemoveAll",
     MESSAGE_REACTION_REMOVE_EMOJI |-> "MessageReactionRemoveEmoji"]

Ev(kind, n, s, b) == [kind |-> kind, n |-> n, s |-> s, b |-> b]

Failed(why) ==
    [err |-> why, sequence |-> None, event |-> Ev("none", 0, "", FALSE)]

\* the match on (op, t) under the key "d": the event, or the kind "error"
\* when map.next_value() refuses d
EventOf(op, t, d) ==
    IF op = 9
    THEN IF d.kind = "bool" THEN Ev("InvalidSession", 0, "", d.b)
         ELSE Ev("error", 0, "invalid type", FALSE)
    ELSE IF op = 10
    THEN IF d.kind = "hello" THEN Ev("Hello", d.n, "", FALSE)
         ELSE Ev("error", 0, "invalid type", FALSE)
    ELSE IF op = 11 THEN Ev("HeartbeatAck", 0, "", FALSE)
    ELSE IF op = 0 /\ t # None
    THEN IF t[1] = "RESUMED" THEN Ev("Resumed", 0, "", FALSE)
         ELSE IF t[1] \in DOMAIN DispatchVariant
         THEN IF d.kind = "body" /\ d.s = t[1]
              THEN Ev(DispatchVariant[t[1]], 0, "", FALSE)
              ELSE Ev("error", 0, "invalid type", FALSE)
         ELSE Ev("Unknown", 0, t[1], FALSE)
    ELSE IF op = 0 THEN Ev("error", 0, "missing field t", FALSE)
    ELSE Ev("Unknown", 0, ToString(op), FALSE)

\* PayloadVisitor::visit_map: one turn of `while let Some(key)`
Visit(acc, key, v) ==
    CASE key = "t" ->
            IF acc.t # None THEN [acc EXCEPT !.err = "duplicate field t"]
            ELSE IF v.kind = "null" THEN acc
            ELSE IF v.kind = "str" THEN [acc EXCEPT !.t = Some(v.s)]
            ELSE [acc EXCEPT !.err = "invalid type"]
      [] key = "s" ->
            IF acc.sequence # None
            THEN [acc EXCEPT !.err = "duplicate field s"]
            ELSE IF v.kind = "null" THEN acc
            ELSE IF v.kind = "num" /\ v.n >= 0
            THEN [acc EXCEPT !.sequence = Some(v.n)]
            ELSE [acc EXCEPT !.err = "invalid type"]
      [] key = "op" ->
            IF acc.op # None THEN [acc EXCEPT !.err = "duplicate field op"]
            ELSE IF v.kind = "num" /\ v.n \in 0..255
            THEN [acc EXCEPT !.op = Some(v.n)]
            ELSE [acc EXCEPT !.err = "invalid value"]
      [] key = "d" ->
            IF acc.payload # None
            THEN [acc EXCEPT !.err = "duplicate field d"]
            ELSE IF acc.op = None THEN [acc EXCEPT !.err = "missing field op"]
            ELSE LET e == EventOf(acc.op[1], acc.t, v)
                 IN  IF e.kind = "error" THEN [acc EXCEPT !.err = e.s]
                     ELSE [acc EXCEPT
                              !.payload = Some([sequence |-> acc.sequence,
                                                event |-> e])]
      [] OTHER -> acc

\* PayloadVisitor::visit_map: the members are visited in the order of the
\* text
RECURSIVE visit_map(_, _)
visit_map(acc, members) ==
    IF acc.err # "" THEN Failed(acc.err)
    ELSE IF members = <<>>
    THEN IF acc.payload = None THEN Failed("missing field d")
         ELSE [err |-> "", sequence |-> acc.payload[1].sequence,
               event |-> acc.payload[1].event]
    ELSE visit_map(Visit(acc, Head(members).k, Head(members).v),
                   Tail(members))

\* JsonEncoder::decode of a text message
Payload_deserialize(members) ==
    visit_map([t |-> None, sequence |-> None, op |-> None, payload |-> None,
               err |-> ""], members)

\* the envelopes: members t, s, op and d, each there or not, in any order
EnvelopeKeys == {"t", "s", "op", "d"}

Orders ==
    {o \in UNION {[1..k -> EnvelopeKeys] : k \in 0..4} :
        \A i, j \in DOMAIN o : i # j => o[i] # o[j]}

EnvelopeValues ==
    [t : {JNull, JStr("READY"), JStr("RESUMED"), JStr("GUILD_ROLE_DELETE"),
          JStr("PRESENCE_UPDATE")},
     s : {JNull, JNum(7)},
     op : {JNum(0), JNum(9), JNum(10), JNum(11), JNum(99), JNum(256)},
     d : {JHello(123456), JBool(TRUE), JBody("READY"),
          JBody("GUILD_ROLE_DELETE"), JNull}]

Envelopes ==
    {[i \in DOMAIN o |-> [k |-> o[i], v |-> vals[o[i]]]] :
        o \in Orders, vals \in EnvelopeValues}

\* JsonEncoder::decode of the text message that came in
Decode ==
    /\ codec.did = "envelope"
    /\ codec' = [codec EXCEPT
                   !.did = "decode",
                   !.decoded = Payload_deserialize(codec.envelope)]
    /\ UNCHANGED outsideCodec

\* Command::op with the opcodes of Resume and Identify exchanged
op_bug_resume_identify(command) ==
    CASE command.kind = "Identify" -> 6
      [] command.kind = "Resume" -> 2
      [] command.kind = "Heartbeat" -> 1
      [] command.kind = "RequestGuildMembers" -> 8
      [] command.kind = "UpdateVoiceState" -> 4
      [] command.kind = "UpdateStatus" -> 3

\* Command::op
op(command) ==
    CASE command.kind = "Identify" -> 2
      [] command.kind = "Resume" -> 6
      [] command.kind = "Heartbeat" -> 1
      [] command.kind = "RequestGuildMembers" -> 8
      [] command.kind = "UpdateVoiceState" -> 4
      [] command.kind = "UpdateStatus" -> 3

\* the commands: their bodies as #[derive(Serialize)] writes them, Identify
\* with any of its optional members
IdentifyOptions ==
    {"compress", "large_threshold", "shard", "presence",
     "guild_subscriptions", "intents"}

Commands ==
    {[kind |-> "Heartbeat", body |-> JNum(s)] : s \in 0..MaxEncodeSeq}
        \cup {[kind |-> "Identify",
               body |-> J("object", 0, "", FALSE,
                          {"token", "properties"} \cup opt)] :
                opt \in SUBSET IdentifyOptions}
        \cup {[kind |-> "Resume",
               body |-> J("object", s, "", FALSE,
                          {"token", "session_id", "seq"})] :
                s \in 0..MaxEncodeSeq}
        \cup {[kind |-> k, body |-> J("object", 0, "", FALSE, {})] :
                k \in {"RequestGuildMembers", "UpdateVoiceState",
                       "UpdateStatus"}}

\* impl Serialize for Payload: serialize_struct with the fields op and d
Payload_serialize(command) ==
    <<[k |-> "op", v |-> JNum(op(command))], [k |-> "d", v |-> command.body]>>

\* JsonEncoder::encode of the command that is to go out
Encode ==
    /\ codec.did = "command"
    /\ codec' = [codec EXCEPT
                   !.did = "encode",
                   !.frame = [kind |-> "Text",
                              members |-> Payload_serialize(codec.command)]]
    /\ UNCHANGED outsideCodec

\* an envelope has come in or a command is to go out
InitCodec ==
    /\ SessionInit
    /\ VoiceInit
    /\ ProjectionInit
    /\ RestInit
    /\ SnowInit
    /\ OpusInit
    /\ PlayerInit
    /\ \/ \E envelope \in Envelopes :
             codec = [CodecIdle EXCEPT !.did = "envelope",
                                       !.envelope = envelope]
       \/ \E command \in Commands :
             codec = [CodecIdle EXCEPT !.did = "command",
                                       !.command = command]

NextCodec ==
    \/ Decode
    \/ Encode

SpecCodec == InitCodec /\ [][NextCodec]_vars

\* the envelope as a JSON object: the value of a member, JNull when absent
Has(envelope, key) == \E i \in DOMAIN envelope : envelope[i].k = key

Member(envelope, key) ==
    IF Has(envelope, key)
    THEN envelope[CHOOSE i \in DOMAIN envelope : envelope[i].k = key].v
    ELSE JNull

\* what the envelope decodes to by its op, t, d and s alone
Expected(envelope) ==
    LET opv == Member(envelope, "op").n
        t == Member(envelope, "t")
        d == Member(envelope, "d")
        s == Member(envelope, "s")
        seq == IF s.kind = "num" THEN Some(s.n) ELSE None
        ev ==
            IF opv = 10 THEN Ev("Hello", d.n, "", FALSE)
            ELSE IF opv = 11 THEN Ev("HeartbeatAck", 0, "", FALSE)
            ELSE IF opv = 9 THEN Ev("InvalidSession", 0, "", d.b)
            ELSE IF opv = 0 /\ t.kind = "str"
            THEN IF t.s \in DOMAIN DispatchVariant
                 THEN Ev(DispatchVariant[t.s], 0, "", FALSE)
                 ELSE Ev("Unknown", 0, t.s, FALSE)
            ELSE IF opv = 0 THEN Ev("error", 0, "", FALSE)
            ELSE Ev("Unknown", 0, ToString(opv), FALSE)
    IN  [sequence |-> seq, event |-> ev]

\* the envelope has an op and a d, and the d is a body of the event that
\* its op and t name
Decodable(envelope) ==
    LET opv == Member(envelope, "op").n
        t == Member(envelope, "t")
        d == Member(envelope, "d")
    IN  /\ Has(envelope, "op")
        /\ Has(envelope, "d")
        /\ opv = 10 => d.kind = "hello"
        /\ opv = 9 => d.kind = "bool"
        /\ (opv = 0 /\ t.kind = "str" /\ t.s \in DOMAIN DispatchVariant
                /\ t.s # "RESUMED")
              => (d.kind = "body" /\ d.s = t.s)

\* C17: an envelope decodes by its op and t to Hello, HeartbeatAck,
\* InvalidSession, the named dispatch, Unknown(t) or Unknown(text of op), to
\* an error when op is 0 and t is null or absent, and the sequence of the
\* payload is the s of the envelope.
C17_DecodeByOpAndT ==
    (codec.did = "decode" /\ Decodable(codec.envelope)) =>
        IF Expected(codec.envelope).event.kind = "error"
        THEN codec.decoded.err # ""
        ELSE /\ codec.decoded.err = ""
             /\ codec.decoded.event = Expected(codec.envelope).event
             /\ codec.decoded.sequence = Expected(codec.envelope).sequence

\* C18: a command is encoded as one text frame holding an object with the
\* two members op and d, op the opcode of the command (Heartbeat 1,
\* Identify 2, UpdateStatus 3, UpdateVoiceState 4, Resume 6,
\* RequestGuildMembers 8) and d its body; the d of a Heartbeat is its
\* sequence.
C18_EncodeOpAndD ==
    codec.did = "encode" =>
        /\ codec.frame.kind = "Text"
        /\ Len(codec.frame.members) = 2
        /\ {codec.frame.members[i].k : i \in 1..2} = {"op", "d"}
        /\ Member(codec.frame.members, "op")
              = JNum(CASE codec.command.kind = "Heartbeat" -> 1
                       [] codec.command.kind = "Identify" -> 2
                       [] codec.command.kind = "UpdateStatus" -> 3
                       [] codec.command.kind = "UpdateVoiceState" -> 4
                       [] codec.command.kind = "Resume" -> 6
                       [] codec.command.kind = "RequestGuildMembers" -> 8)
        /\ Member(codec.frame.members, "d") = codec.command.body
        /\ codec.command.kind = "Heartbeat" =>
              Member(codec.frame.members, "d").kind = "num"

\* Heartbeat(2) was encoded as {"op": 1, "d": 2}
C18_Witness ==
    /\ codec.did = "encode"
    /\ codec.command = [kind |-> "Heartbeat", body |-> JNum(2)]
    /\ codec.frame.members
          = <<[k |-> "op", v |-> JNum(1)], [k |-> "d", v |-> JNum(2)]>>


(***************************************************************************)
(* SpecSnowflake: the methods of Snowflake (src/src/lib.rs).  A u64 is the *)
(* sequence of its four 16-bit limbs, the most significant first.          *)
(***************************************************************************)
\* bit i of a u64, bit 0 the least significant
Bit(v, i) == (v[4 - (i \div 16)] \div 2 ^ (i % 16)) % 2

RECURSIVE LimbOf(_, _, _)
LimbOf(f, base, k) ==
    IF k = 16 THEN 0 ELSE f[base + k] * 2 ^ k + LimbOf(f, base, k + 1)

\* the u64 with the bits f[0] .. f[63]
FromBits(f) == [j \in 1..4 |-> LimbOf(f, 16 * (4 - j), 0)]

\* v >> n
Shr(v, n) ==
    FromBits([i \in 0..63 |-> IF i + n <= 63 THEN Bit(v, i + n) ELSE 0])

\* v & m
BitAnd(v, m) == FromBits([i \in 0..63 |-> Bit(v, i) * Bit(m, i)])

\* a + b of u64, modulo 2^64
RECURSIVE AddFrom(_, _, _, _)
AddFrom(a, b, j, carry) ==
    IF j = 0 THEN <<>>
    ELSE Append(AddFrom(a, b, j - 1, (a[j] + b[j] + carry) \div 65536),
                (a[j] + b[j] + carry) % 65536)

Add(a, b) == AddFrom(a, b, 4, 0)

\* 1_420_070_400_000
DISCORD_EPOCH == <<0, 330, 41674, 45056>>

\* quotient and remainder of a u64 by a divisor below 2^15
RECURSIVE DivFrom(_, _, _, _)
DivFrom(a, d, j, r) ==
    IF j > 4 THEN [q |-> <<>>, r |-> r]
    ELSE LET cur == r * 65536 + a[j]
             low == DivFrom(a, d, j + 1, cur % d)
         IN  [q |-> <<cur \div d>> \o low.q, r |-> low.r]

DivSmall(a, d) == DivFrom(a, d, 1, 0)

\* the date of a day counted from 1970-01-01
civil_from_days(days) ==
    LET z == days + 719468
        era == z \div 146097
        doe == z - era * 146097
        yoe == (doe - doe \div 1460 + doe \div 36524 - doe \div 146096)
                   \div 365
        doy == doe - (365 * yoe + yoe \div 4 - yoe \div 100)
        mp == (5 * doy + 2) \div 153
        d == doy - (153 * mp + 2) \div 5 + 1
        m == IF mp < 10 THEN mp + 3 ELSE mp - 9
        y == yoe + era * 400 + (IF m <= 2 THEN 1 ELSE 0)
    IN  <<y, m, d>>

\* Utc.timestamp_millis: year, month, day, hour, minute, second and
\* millisecond of a count of milliseconds
timestamp_millis(ms) ==
    LET secs == DivSmall(ms, 1000)
        mins == DivSmall(secs.q, 60)
        minutes == mins.q[3] * 65536 + mins.q[4]
    IN  civil_from_days(minutes \div 1440)
            \o <<(minutes \div 60) % 24, minutes % 60, mins.r, secs.r>>

\* Snowflake::date_time
date_time(v) ==
    LET timestamp == Add(Shr(v, 22), DISCORD_EPOCH)
    IN  [ms |-> timestamp, civil |-> timestamp_millis(timestamp)]

\* Snowflake::worker shifting by 16 instead of 17
worker_bug_shift16(v) == Shr(BitAnd(v, <<0, 0, 62, 0>>), 16)[4] % 256

\* Snowflake::worker: ((self.0 & 0x3E0000) >> 17) as u8
worker(v) == Shr(BitAnd(v, <<0, 0, 62, 0>>), 17)[4] % 256

\* Snowflake::process: ((self.0 & 0x1F000) >> 12) as u8
process(v) == Shr(BitAnd(v, <<0, 0, 1, 61440>>), 12)[4] % 256

\* Snowflake::increment: (self.0 & 0xFFF) as u16
increment(v) == BitAnd(v, <<0, 0, 0, 4095>>)[4]

SnowDateTime ==
    /\ snow.date_time = None
    /\ snow' = [snow EXCEPT !.date_time = Some(date_time(snow.v))]
    /\ UNCHANGED outsideSnow

SnowWorker ==
    /\ snow.worker = None
    /\ snow' = [snow EXCEPT !.worker = Some(worker(snow.v))]
    /\ UNCHANGED outsideSnow

SnowProcess ==
    /\ snow.process = None
    /\ snow' = [snow EXCEPT !.process = Some(process(snow.v))]
    /\ UNCHANGED outsideSnow

SnowIncrement ==
    /\ snow.increment = None
    /\ snow' = [snow EXCEPT !.increment = Some(increment(snow.v))]
    /\ UNCHANGED outsideSnow

\* Snowflake(175_928_847_299_117_063)
ExampleSnowflake == <<625, 1626, 49410, 7>>

\* the snowflakes: the example and the limbs around the borders of the
\* fields at the bits 12, 17 and 22
Snowflakes ==
    {<<l3, l2, l1, l0>> :
        l3 \in {0, 625, 65535}, l2 \in {0, 1626, 65535},
        l1 \in {0, 1, 2, 62, 63, 64, 49410, 65535},
        l0 \in {0, 7, 4095, 4096, 61440, 65535}}

InitSnowflake ==
    /\ SessionInit
    /\ VoiceInit
    /\ ProjectionInit
    /\ RestInit
    /\ CodecInit
    /\ OpusInit
    /\ PlayerInit
    /\ \E v \in Snowflakes : snow = [SnowIdle EXCEPT !.v = v]

NextSnowflake ==
    \/ SnowDateTime
    \/ SnowWorker
    \/ SnowProcess
    \/ SnowIncrement

SpecSnowflake == InitSnowflake /\ [][NextSnowflake]_vars

\* a - b of u64 for a >= b
RECURSIVE SubFrom(_, _, _, _)
SubFrom(a, b, j, borrow) ==
    IF j = 0 THEN <<>>
    ELSE LET x == a[j] - b[j] - borrow
         IN  Append(SubFrom(a, b, j - 1, IF x < 0 THEN 1 ELSE 0),
                    (x + 65536) % 65536)

\* the snowflake made of a timestamp in milliseconds, a worker, a process
\* and an increment
Compose(ms, w, p, i) ==
    LET t == SubFrom(ms, DISCORD_EPOCH, 4, 0)
    IN  <<(t[3] \div 1024) + t[2] * 64,
          (t[4] \div 1024) + (t[3] % 1024) * 64,
          (p \div 16) + w * 2 + (t[4] % 1024) * 64,
          i + (p % 16) * 4096>>

Called == \A f \in {"date_time", "worker", "process", "increment"} :
              snow[f] # None

\* C19: the timestamp of a snowflake is (v >> 22) + 1420070400000 ms, its
\* worker the bits 17..21, its process the bits 12..16, its increment the
\* bits 0..11, and the four give the snowflake back.
C19_SnowflakeComponents ==
    /\ snow.worker # None => snow.worker[1] = (snow.v[3] \div 2) % 32
    /\ snow.process # None =>
          snow.process[1] = (snow.v[4] \div 4096) + (snow.v[3] % 2) * 16
    /\ snow.increment # None => snow.increment[1] = snow.v[4] % 4096
    /\ snow.date_time # None =>
          /\ SubFrom(snow.date_time[1].ms, DISCORD_EPOCH, 4, 0)
                = <<0, snow.v[1] \div 64,
                    (snow.v[2] \div 64) + (snow.v[1] % 64) * 1024,
                    (snow.v[3] \div 64) + (snow.v[2] % 64) * 1024>>
          /\ snow.v = ExampleSnowflake =>
                snow.date_time[1].civil = <<2016, 4, 30, 11, 18, 25, 796>>
    /\ Called =>
          Compose(snow.date_time[1].ms, snow.worker[1], snow.process[1],
                  snow.increment[1]) = snow.v

\* the four methods were called on the example
C19_Witness ==
    /\ snow.v = ExampleSnowflake
    /\ Called
    /\ snow.date_time[1].ms = <<0, 340, 26340, 6916>>
    /\ snow.date_time[1].civil = <<2016, 4, 30, 11, 18, 25, 796>>
    /\ snow.worker = Some(1)
    /\ snow.process = Some(0)
    /\ snow.increment = Some(7)


(***************************************************************************)
(* SpecOpus: an OpusStream polled while the clock moves                    *)
(* (src/src/voice/opus.rs).  Time is counted in readings of the clock,     *)
(* TicksPerMicro of them in a microsecond.                                 *)
(***************************************************************************)
FRAME_LENGTH_MS == 20

\* Duration::from_micros
from_micros(micros) == micros * TicksPerMicro

\* Duration::as_micros: whole microseconds
as_micros(d) == d \div TicksPerMicro

\* Duration::from_millis
from_millis(ms) == from_micros(ms * 1000)

\* OpusStream::duration
Duration == from_millis(FRAME_LENGTH_MS)

\* u128::saturating_sub
saturating_sub(a, b) == IF a > b THEN a - b ELSE 0

\* poll_next, lines 182-187, never waiting: the deadline is the time of the
\* yield
NextDeadline_bug_now(now, deadline) == now

\* poll_next, lines 182-187: the deadline after a yield at the time now
NextDeadline(now, deadline) ==
    LET passed == now - deadline
        micros == saturating_sub(as_micros(Duration), as_micros(passed))
    IN  now + from_micros(micros)

\* the item of poll_next is yielded
Yield(o, kind) ==
    [o EXCEPT !.has_delayed = FALSE,
              !.deadline = NextDeadline(o.now, o.deadline),
              !.delay = NextDeadline(o.now, o.deadline),
              !.k = o.k + 1, !.at = o.now, !.due = o.deadline,
              !.passed = o.now - o.deadline, !.last = kind]

\* OpusStream::poll_next; enc is what the encoder gives when it is polled
poll_next(o, enc) ==
    IF o.done THEN o
    ELSE IF ~o.has_delayed /\ o.now < o.delay THEN o
    ELSE LET d == [o EXCEPT !.has_delayed = TRUE]
         IN  IF d.silence_frames > 0
             THEN Yield([d EXCEPT !.silence_frames = d.silence_frames - 1],
                        "silence")
             ELSE CASE enc = "Pending" -> d
                    [] enc = "None" -> [d EXCEPT !.done = TRUE]
                    [] OTHER -> Yield(d, enc)

\* the stream is polled
OpusPoll ==
    /\ opus.k < MaxOpusItems
    /\ \E enc \in {"Pending", "None", "Ok", "Err"} :
          opus' = poll_next(opus, enc)
    /\ UNCHANGED outsideOpus

\* the clock moves: by one reading, by just less than a frame, by a frame,
\* by a frame and a microsecond and a half
Jumps == {1, Duration - 1, Duration, Duration + TicksPerMicro + 1}

OpusTime ==
    /\ opus.jumps < MaxJumps
    /\ \E j \in Jumps :
          opus' = [opus EXCEPT !.now = opus.now + j, !.jumps = opus.jumps + 1]
    /\ UNCHANGED outsideOpus

NextOpus ==
    \/ OpusPoll
    \/ OpusTime

SpecOpus == Init /\ [][NextOpus]_vars

\* C21: the k-th item of an OpusStream made at t is yielded at or after
\* t + (k-1) * 20 ms and not before the deadline in force, and after an
\* item that came 20 ms or more late the deadline is the time of its yield.
C21_PacedByDeadline ==
    opus.k >= 1 =>
        /\ opus.at >= opus.created
                         + (opus.k - 1) * FRAME_LENGTH_MS * 1000 * TicksPerMicro
        /\ opus.at >= opus.due
        /\ opus.delay = opus.deadline
        /\ opus.passed >= FRAME_LENGTH_MS * 1000 * TicksPerMicro =>
              opus.deadline = opus.at

\* an encoded frame was yielded more than 20 ms after its deadline, the
\* five silence frames before it
C21_Witness ==
    /\ opus.k = SILENCE_FRAME_COUNT + 2
    /\ opus.last = "Ok"
    /\ opus.passed > FRAME_LENGTH_MS * 1000 * TicksPerMicro
    /\ opus.deadline = opus.at
    /\ opus.at >= opus.created + 6 * FRAME_LENGTH_MS * 1000 * TicksPerMicro

(***************************************************************************)
(* SpecResumed: the reader of the duplex loop is given Resumed, and        *)
(* nothing else, on a registry that earlier connections have filled.       *)
(***************************************************************************)
\* what earlier connections can leave of one guild: its entry, its mailbox
\* and the receiver of the mailbox
GuildSlots ==
    {[entry |-> Entry(FALSE, FALSE, "None"), box |-> <<>>, rx |-> "none"]}
        \cup {[entry |-> Entry(TRUE, a, "Some"), box |-> q, rx |-> "held"] :
                a \in BOOLEAN,
                q \in {<<>>, [i \in 1..MailboxBuffer + 1 |->
                                 Item("Offline", 0, 0)]}}
        \cup {[entry |-> Entry(TRUE, a, send), box |-> <<>>,
                rx |-> "dropped"] :
                a \in BOOLEAN, send \in {"Some", "None"}}

InitResumed ==
    /\ pc = "live"
    /\ meta = [session_id |-> 1, user |-> TRUE, application |-> TRUE]
    /\ sequence = 1
    /\ token = [kind |-> "Resume", session_id |-> 1, seq |-> 1]
    /\ finished = FALSE
    /\ \E slot \in [Guilds -> GuildSlots] :
          /\ guilds = [g \in Guilds |-> slot[g].entry]
          /\ box = [g \in Guilds |-> slot[g].box]
          /\ rx = [g \in Guilds |-> slot[g].rx]
          /\ lastUnavail = [g \in Guilds |->
                               IF ~slot[g].entry.known THEN "na"
                               ELSE IF slot[g].entry.available THEN "false"
                               ELSE "true"]
          /\ allocated = [g \in Guilds |->
                             IF slot[g].entry.known THEN 1 ELSE 0]
          /\ notified = [g \in Guilds |->
                            IF slot[g].entry.known THEN "Offline" ELSE "none"]
    /\ seedq = <<>>
    /\ cmdq = <<>>
    /\ flag = FALSE
    /\ ticksDue = 0
    /\ srvSeq = 1
    /\ wireLog = <<0>>
    /\ cmdN = 0
    /\ hs = <<[op |-> "Resume", session_id |-> 1, seq |-> 1]>>
    /\ maxSeen = 1
    /\ lastHb = [d |-> 0, max |-> 0]
    /\ ticksElapsed = 0
    /\ hbWritten = 0
    /\ bypass = 0
    /\ taken = [g \in Guilds |-> <<>>]
    /\ openedBy = "Resume"
    /\ invalidated = NoSession
    /\ atBuild = [session_id |-> 1, seq |-> 1]
    /\ offer = NoOffer
    /\ lost = 0
    /\ undecoded = FALSE
    /\ fused = FusedInit
    /\ shutdown = FALSE
    /\ PlanesInit

ResumedEnv == [kinds |-> {"Resumed"}, un |-> {}, wire |-> MaxRegistryWire]

NextResumed ==
    \/ Read(ResumedEnv)
    \/ \E g \in Guilds : GuildRecv(g)
    \/ \E g \in Guilds : GuildDrop(g)

SpecResumed == InitResumed /\ [][NextResumed]_vars

\* C26: when the reader of the duplex loop processes Resumed, Online is
\* offered to the mailbox of every guild on record as available and of no
\* other guild, a mailbox with room takes it, and no availability flag
\* changes.
C26_ResumedTellsAvailableGuilds ==
    [][(pc = "live" /\ Len(wireLog') > Len(wireLog)) =>
          \A g \in Guilds :
              /\ guilds'[g].available = guilds[g].available
              /\ guilds'[g].known = guilds[g].known
              /\ IF guilds[g].known /\ guilds[g].available
                 THEN /\ offer'[g] = Outcome(guilds[g].send, box[g], rx[g])
                      /\ box'[g] = IF offer'[g] = "sent"
                                   THEN Append(box[g], Item("Online", 0, 0))
                                   ELSE box[g]
                 ELSE /\ offer'[g] = "none"
                      /\ box'[g] = box[g]]_vars

\* Resumed was processed while guild 1 was on record as available and
\* guild 2 as unavailable: Online went to the mailbox of guild 1 only
C26_Witness ==
    /\ pc = "live"
    /\ Len(wireLog) = 2
    /\ guilds[1].known /\ guilds[1].available
    /\ guilds[2].known /\ ~guilds[2].available
    /\ offer[1] = "sent"
    /\ box[1] = <<Item("Online", 0, 0)>>
    /\ offer[2] = "none"
    /\ box[2] = <<>>
    /\ rx[2] = "held"

(***************************************************************************)
(* SpecFrames: a voice connection that has just opened its socket, its     *)
(* owner handing it voice frames while the voice gateway delivers session  *)
(* descriptions.                                                           *)
(***************************************************************************)
FramesEnv ==
    [modes |-> {{ENCRYPTION_MODE, "xsalsa20_poly1305_lite"}},
     ssrcs |-> {<<0, 1>>}, keys |-> Keys,
     replies |-> {Reply(Server, 2, ExampleIp, <<31, 144>>, 74),
                  NoReply("timeout")},
     events |-> MaxFrameEvents]

InitFrames ==
    /\ SessionInit
    /\ \E ready \in {r \in Readies(FramesEnv) :
                        r.resolves /\ mode_supported(r)} :
          /\ conn = [ConnectedWith(ready) EXCEPT !.controls = 0]
          /\ gw = GatewayWith(ready)
          /\ sock = Socket_new(ready)
    /\ listener = <<"Connected">>
    /\ datagrams = <<>>
    /\ ProjectionInit
    /\ CallsInit

NextFrames ==
    \/ ConnControl
    \/ ConnEvent
    \/ ConnGatewayShutdown
    \/ ConnSocketEvent
    \/ ConnSocketShutdown
    \/ GwRead(FramesEnv)
    \/ SockDiscover(FramesEnv)
    \/ SockWrite
    \/ SockWriteEnds

SpecFrames == InitFrames /\ [][NextFrames]_vars

\* C27: a datagram is sent only when a key is installed, and under the key
\* the writer took from its control channel last; a frame the writer takes
\* while it has no key is discarded and no datagram is sent for it; and a
\* control handed to the connection before the address of its socket was
\* discovered puts nothing on the control channel of the socket.
C27_NoAudioBeforeKey ==
    [][/\ Len(datagrams') > Len(datagrams) =>
              /\ sock.cipher # None
              /\ datagrams'[Len(datagrams')].key = sock.cipher[1]
       /\ (/\ sock.pc = "write" /\ sock.control_recv # <<>>
           /\ sock'.pc = "write"
           /\ sock'.control_recv = Tail(sock.control_recv)) =>
              IF Head(sock.control_recv).kind = "SecretKey"
              THEN /\ sock'.cipher = Some(Head(sock.control_recv).v)
                   /\ datagrams' = datagrams
              ELSE IF sock.cipher = None
              THEN /\ datagrams' = datagrams
                   /\ sock'.discarded = sock.discarded + 1
                   /\ sock'.cipher = None
              ELSE sock'.cipher = sock.cipher
       /\ (conn'.controls > conn.controls /\ conn.external_addr = None) =>
              sock'.control_recv = sock.control_recv]_vars

\* a frame was discarded for want of a key, a first key arrived, then a
\* second, and the one datagram sent is encrypted under the second
C27_Witness ==
    /\ sock.discarded = 1
    /\ Len(datagrams) = 1
    /\ datagrams[1].key = 2
    /\ sock.cipher = Some(2)
    /\ Len(listener) = 3
    /\ listener[2] = "Ready" /\ listener[3] = "Ready"
    /\ conn.external_addr # None

(***************************************************************************)
(* SpecPlayer: the voice player of one guild, from Player::new on, with    *)
(* its owner, the guild task that updates it, the voice connection it      *)
(* spawns and its connect timer.                                           *)
(***************************************************************************)
ChannelIds == {1, 2}

\* an Event handed to the listener of the player
PlayerEvent(kind, channel_id, stream) ==
    [kind |-> kind, channel_id |-> channel_id, stream |-> stream]

\* Player::emit_event
emit_event(p, e) == [p EXCEPT !.events = Append(@, e)]

\* Player::update_voice_state: the command is offered to the main gateway
update_voice_state(p, channel_id) ==
    [p EXCEPT !.issued = Append(@, channel_id)]

\* Player::server_credentials
server_credentials(p) ==
    IF p.session_id # None /\ p.token # None /\ p.endpoint # None
    THEN Some([session_id |-> p.session_id[1], token |-> p.token[1],
               endpoint |-> p.endpoint[1]])
    ELSE None

\* Player::clear_connection, leaving the connect timer as it is
clear_connection_bug_no_timer(p, reconnect) ==
    LET stream == IF p.encoder = "stream" THEN Some(1) ELSE None
        p1 == [p EXCEPT !.encoder = "empty"]
        p2 == IF p.state = "Connected"
              THEN emit_event(p1,
                     PlayerEvent(IF reconnect THEN "Reconnecting"
                                 ELSE "Disconnected", None, stream))
              ELSE p1
    IN  [p2 EXCEPT !.state = IF reconnect THEN "Connecting" ELSE "Idle",
                   !.channel_id = None,
                   !.session_id = None,
                   !.token = None,
                   !.endpoint = None,
                   !.conn_event_recv = "empty",
                   !.voice_send = FALSE]

\* Player::clear_connection
clear_connection(p, reconnect) ==
    LET stream == IF p.encoder = "stream" THEN Some(1) ELSE None
        p1 == [p EXCEPT !.encoder = "empty"]
        p2 == IF p.state = "Connected"
              THEN emit_event(p1,
                     PlayerEvent(IF reconnect THEN "Reconnecting"
                                 ELSE "Disconnected", None, stream))
              ELSE p1
    IN  [p2 EXCEPT !.state = IF reconnect THEN "Connecting" ELSE "Idle",
                   !.connect_timeout = IF reconnect THEN "armed" ELSE @,
                   !.channel_id = None,
                   !.session_id = None,
                   !.token = None,
                   !.endpoint = None,
                   !.conn_event_recv = "empty",
                   !.voice_send = FALSE]

\* Player::on_update, its closing `if`: a connection is spawned
SpawnConnection(p) ==
    IF /\ p.state = "Connecting"
       /\ p.conn_event_recv = "empty"
       /\ server_credentials(p) # None
    THEN [p EXCEPT !.conn_event_recv = "open"]
    ELSE p

\* the updates the guild task can send
Updates ==
    {[kind |-> k, about_us |-> TRUE, channel_id |-> None, endpoint |-> None] :
        k \in {"GuildOnline", "GuildOffline", "SessionInvalidated"}}
        \cup {[kind |-> "VoiceServerUpdate", about_us |-> TRUE,
               channel_id |-> None, endpoint |-> e] :
                e \in {None, Some(1)}}
        \cup {[kind |-> "VoiceStateUpdate", about_us |-> a,
               channel_id |-> c, endpoint |-> None] :
                a \in BOOLEAN, c \in {None} \cup {Some(i) : i \in ChannelIds}}

\* Player::on_update
on_update(p, u) ==
    CASE u.kind = "VoiceStateUpdate" ->
            IF ~u.about_us THEN p
            ELSE LET p1 == IF p.state # "Connecting"
                           THEN clear_connection(p, u.channel_id # None)
                           ELSE p
                 IN  SpawnConnection([p1 EXCEPT
                                        !.channel_id = u.channel_id,
                                        !.session_id = Some(1)])
      [] u.kind = "VoiceServerUpdate" ->
            LET p1 == [p EXCEPT !.token = Some(1), !.endpoint = u.endpoint]
            IN  SpawnConnection(
                    IF p1.state = "Connected" /\ p1.endpoint = None
                    THEN update_voice_state(clear_connection(p1, FALSE),
                                            None)
                    ELSE p1)
      [] u.kind = "GuildOnline" ->
            SpawnConnection(
                IF p.state = "Connecting" /\ p.channel_id # None
                THEN update_voice_state(p, p.channel_id)
                ELSE p)
      [] u.kind = "GuildOffline" ->
            SpawnConnection([clear_connection(p, TRUE) EXCEPT
                                !.channel_id = p.channel_id])
      [] OTHER -> SpawnConnection(p)

\* the controls the owner of the player can send
PlayerControls ==
    {[kind |-> "Connect", channel_id |-> Some(c)] : c \in ChannelIds}
        \cup {[kind |-> k, channel_id |-> None] :
                k \in {"Disconnect", "Shutdown", "Play", "Stop"}}

\* Player::on_control, reconnecting to the channel it is connected to
on_control_bug_always_reconnects(p, c) ==
    CASE c.kind = "Connect" ->
            update_voice_state(clear_connection(p, TRUE), c.channel_id)
      [] c.kind = "Disconnect" ->
            update_voice_state(clear_connection(p, FALSE), None)
      [] c.kind = "Shutdown" ->
            [update_voice_state(clear_connection(p, FALSE), None) EXCEPT
                !.state = "Shutdown"]
      [] c.kind = "Play" ->
            IF p.state = "Connected"
            THEN emit_event([p EXCEPT !.encoder = "stream"],
                            PlayerEvent("Playing", None, None))
            ELSE emit_event(p, PlayerEvent("Stopped", None, Some(1)))
      [] c.kind = "Stop" ->
            IF p.encoder = "stream"
            THEN emit_event([p EXCEPT !.encoder = "empty"],
                            PlayerEvent("Stopped", None, Some(1)))
            ELSE p

\* Player::on_control
on_control(p, c) ==
    CASE c.kind = "Connect" ->
            IF p.state = "Connected" /\ p.channel_id = c.channel_id
            THEN emit_event(p, PlayerEvent("Connected", c.channel_id, None))
            ELSE update_voice_state(clear_connection(p, TRUE), c.channel_id)
      [] c.kind = "Disconnect" ->
            update_voice_state(clear_connection(p, FALSE), None)
      [] c.kind = "Shutdown" ->
            [update_voice_state(clear_connection(p, FALSE), None) EXCEPT
                !.state = "Shutdown"]
      [] c.kind = "Play" ->
            IF p.state = "Connected"
            THEN emit_event([p EXCEPT !.encoder = "stream"],
                            PlayerEvent("Playing", None, None))
            ELSE emit_event(p, PlayerEvent("Stopped", None, Some(1)))
      [] c.kind = "Stop" ->
            IF p.encoder = "stream"
            THEN emit_event([p EXCEPT !.encoder = "empty"],
                            PlayerEvent("Stopped", None, Some(1)))
            ELSE p

\* Player::run, the conn_event_recv arm
on_conn_event(p, e) ==
    CASE e = "Connected" -> p
      [] e = "VoiceFrameSender" ->
            LET p1 == [p EXCEPT !.voice_send = TRUE, !.state = "Connected",
                                !.connect_timeout = "empty"]
            IN  IF p.channel_id # None
                THEN emit_event(p1, PlayerEvent("Connected", p.channel_id,
                                                None))
                ELSE p1
      [] e = "None" -> clear_connection(p, FALSE)

\* Player::run, the encoder arm
on_frame(p, f) ==
    IF f = "None"
    THEN emit_event([p EXCEPT !.encoder = "empty"],
                    PlayerEvent("Finished", None, None))
    ELSE p

\* Player::run, the connect_timeout arm, without the test of the state
on_connect_timeout_bug_any_state(p) ==
    emit_event(update_voice_state(
                   clear_connection([p EXCEPT !.connect_timeout = "empty"],
                                    FALSE), None),
               PlayerEvent("ConnectError", None, None))

\* Player::run, the connect_timeout arm: the Sleep has completed
on_connect_timeout(p) ==
    IF p.state = "Connecting"
    THEN emit_event(update_voice_state(
                        clear_connection(
                            [p EXCEPT !.connect_timeout = "empty"], FALSE),
                        None),
                    PlayerEvent("ConnectError", None, None))
    ELSE [p EXCEPT !.connect_timeout = "empty"]

\* the player at the select! of run(): nothing emitted or issued yet in
\* this turn
Turn(p, arm, kind, channel_id) ==
    [p EXCEPT !.events = <<>>, !.issued = <<>>,
              !.last = [arm |-> arm, kind |-> kind,
                        channel_id |-> channel_id]]

\* the stream q is left playing has yielded an error: it is the stream of
\* p, and it had done so or does so in this turn
Errored(p, q, same, hit) ==
    [q EXCEPT !.errored = q.encoder = "stream" /\ same /\ (p.errored \/ hit)]

\* the loop of run() entered without the test of the state
AtSelect_bug_ignores_shutdown == player.running

\* the loop of run() is entered: not shut down, not left by `break`
AtSelect == player.running /\ player.state # "Shutdown"

\* run(), the update_recv arm
PlayerUpdate ==
    /\ AtSelect
    /\ \E u \in Updates :
          player' =
              [Errored(player,
                       on_update(Turn(player, "update", u.kind,
                                      u.channel_id), u),
                       TRUE, FALSE)
                  EXCEPT !.rejoin =
                      IF u.kind = "GuildOffline"
                      THEN IF player.state = "Connected"
                           THEN player.channel_id ELSE @
                      ELSE None]
    /\ UNCHANGED outsidePlayer

\* run(), the control_recv arm
PlayerControl ==
    /\ AtSelect
    /\ \E c \in PlayerControls :
          player' =
              [Errored(player,
                       on_control(Turn(player, "control", c.kind,
                                       c.channel_id), c),
                       c.kind # "Play", FALSE)
                  EXCEPT !.rejoin = None]
    /\ UNCHANGED outsidePlayer

\* run(), the conn_event_recv arm: an event of the voice connection, or the
\* end of its channel
PlayerConnEvent ==
    /\ AtSelect
    /\ player.conn_event_recv = "open"
    /\ \E e \in {"Connected", "VoiceFrameSender", "None"} :
          player' =
              [Errored(player,
                       on_conn_event(Turn(player, "conn_event", e, None), e),
                       TRUE, FALSE)
                  EXCEPT !.rejoin = None]
    /\ UNCHANGED outsidePlayer

\* run(), the encoder arm
PlayerFrame ==
    /\ AtSelect
    /\ player.encoder = "stream"
    /\ \E f \in {"Ok", "Err", "None"} :
          player' = Errored(player,
                            on_frame(Turn(player, "encoder", f, None), f),
                            TRUE, f = "Err")
    /\ UNCHANGED outsidePlayer

\* run(), the connect_timeout arm: five seconds have passed since the timer
\* was armed
PlayerConnectTimeout ==
    /\ AtSelect
    /\ player.connect_timeout = "armed"
    /\ player' = Errored(player,
                         on_connect_timeout(Turn(player, "connect_timeout",
                                                 "elapsed", None)),
                         TRUE, FALSE)
    /\ UNCHANGED outsidePlayer

\* run() returns: the state is Shutdown, or a channel of the player has
\* ended and item! breaks the loop
PlayerEnds ==
    /\ player.running
    /\ player' = [Turn(player, "break", "break", None) EXCEPT
                     !.running = FALSE]
    /\ UNCHANGED outsidePlayer

NextPlayer ==
    \/ PlayerUpdate
    \/ PlayerControl
    \/ PlayerConnEvent
    \/ PlayerFrame
    \/ PlayerConnectTimeout
    \/ PlayerEnds

SpecPlayer == Init /\ [][NextPlayer]_vars

\* C28: on Connect(c) a player that is Connected to c emits Connected(c) and
\* changes nothing else; any other player ends the turn Connecting, with the
\* connect timer armed, no voice connection, no stream being played and no
\* session id, token or endpoint, having issued UpdateVoiceState(c).
C28_ConnectControl ==
    [][(player'.last.arm = "control" /\ player'.last.kind = "Connect") =>
          LET c == player'.last.channel_id
          IN  IF player.state = "Connected" /\ player.channel_id = c
              THEN /\ player'.events = <<PlayerEvent("Connected", c, None)>>
                   /\ player'.issued = <<>>
                   /\ \A f \in {"state", "channel_id", "session_id",
                                "token", "endpoint", "conn_event_recv",
                                "connect_timeout", "voice_send", "encoder",
                                "running"} : player'[f] = player[f]
              ELSE /\ player'.state = "Connecting"
                   /\ player'.connect_timeout = "armed"
                   /\ player'.conn_event_recv = "empty"
                   /\ ~player'.voice_send
                   /\ player'.encoder = "empty"
                   /\ player'.session_id = None
                   /\ player'.token = None
                   /\ player'.endpoint = None
                   /\ player'.issued = <<c>>]_vars

\* Connect(2) reached a player that was playing on channel 1: it is
\* Connecting, has told its listener and has asked for channel 2
C28_Witness ==
    /\ player.last = [arm |-> "control", kind |-> "Connect",
                      channel_id |-> Some(2)]
    /\ player.state = "Connecting"
    /\ player.events = <<PlayerEvent("Reconnecting", None, Some(1))>>
    /\ player.issued = <<Some(2)>>
    /\ player.connect_timeout = "armed"

\* C29: when the connect timer fires on a Connecting player the player goes
\* to Idle without channel id or credentials, issues UpdateVoiceState(null)
\* and emits ConnectError, once: the timer is left unarmed.  ConnectError is
\* emitted by no other turn, and a Connected player has no armed timer.
C29_ConnectTimeout ==
    [][/\ (player'.last.arm = "connect_timeout"
              /\ player.state = "Connecting") =>
              /\ player'.state = "Idle"
              /\ player'.channel_id = None
              /\ player'.session_id = None
              /\ player'.token = None
              /\ player'.endpoint = None
              /\ player'.issued = <<None>>
              /\ player'.events = <<PlayerEvent("ConnectError", None, None)>>
              /\ player'.connect_timeout = "empty"
       /\ (\E i \in 1..Len(player'.events) :
              player'.events[i].kind = "ConnectError") =>
              /\ player'.last.arm = "connect_timeout"
              /\ player.state = "Connecting"
       /\ player'.state = "Connected" => player'.connect_timeout = "empty"]_vars

\* the timer fired on a player that had asked for channel 1 and was waiting
\* for its voice connection
C29_Witness ==
    /\ player.last.arm = "connect_timeout"
    /\ player.state = "Idle"
    /\ player.events = <<PlayerEvent("ConnectError", None, None)>>
    /\ player.issued = <<None>>
    /\ player.connect_timeout = "empty"
    /\ player.conn_event_recv = "empty"

\* C30: GuildOffline on a player Connected to channel c makes it emit
\* Reconnecting and keep c as its channel id; the GuildOnline that arrives
\* next, no other update or control having come in between, issues
\* UpdateVoiceState(c).
C30_RejoinAfterGuildOffline ==
    [][/\ (/\ player'.last.kind = "GuildOffline"
           /\ player.state = "Connected"
           /\ player.channel_id # None) =>
              /\ Len(player'.events) = 1
              /\ player'.events[1].kind = "Reconnecting"
              /\ player'.channel_id = player.channel_id
       /\ (player'.last.kind = "GuildOnline" /\ player.rejoin # None) =>
              player'.issued = <<player.rejoin>>]_vars

\* C31: once the stream being played has yielded an error the encoder arm of
\* run() takes no further item of it, so no frame of it is forwarded and
\* Finished is not emitted for it.
C31_ErrorCancelsStream ==
    [][player.errored =>
          /\ player'.last.arm # "encoder"
          /\ \A i \in 1..Len(player'.events) :
                player'.events[i].kind # "Finished"]_vars

\* C32: the turn that takes Shutdown from the control channel leaves the
\* player without voice connection and without stream, in state Shutdown,
\* having issued UpdateVoiceState(null); the only step of a player in state
\* Shutdown is the return of run(), and a player whose run() has returned
\* takes no step.
C32_ShutdownTerminates ==
    [][/\ (player'.last.arm = "control" /\ player'.last.kind = "Shutdown") =>
              /\ player'.state = "Shutdown"
              /\ player'.conn_event_recv = "empty"
              /\ ~player'.voice_send
              /\ player'.encoder = "empty"
              /\ player'.issued = <<None>>
              /\ player'.running
       /\ player.state = "Shutdown" =>
              /\ player'.last.arm = "break"
              /\ ~player'.running
              /\ player'.state = "Shutdown"
       /\ ~player.running => player' = player]_vars

\* Shutdown reached a player that was playing on a channel: the stream went
\* back to the listener with Disconnected and the player is in Shutdown
C32_Witness ==
    /\ player.last.arm = "control" /\ player.last.kind = "Shutdown"
    /\ player.state = "Shutdown"
    /\ player.events = <<PlayerEvent("Disconnected", None, Some(1))>>
    /\ player.issued = <<None>>
    /\ player.encoder = "empty"
    /\ player.conn_event_recv = "empty"

(***************************************************************************)
(* SpecPlayerLive: the player of SpecPlayer with a clock that moves: the   *)
(* Sleep of an armed connect timer completes, and the select! of run()     *)
(* then takes its arm unless another arm disarms or re-arms the timer.     *)
(***************************************************************************)
SpecPlayerLive ==
    Init /\ [][NextPlayer]_vars /\ WF_vars(PlayerConnectTimeout)

\* the turns of a behaviour are, from some point on, neither updates nor
\* controls
Quiet == <>[][player'.last.arm \notin {"update", "control"}]_vars

\* C38: a Connecting player has its connect timer armed; and when controls
\* and updates cease, a player whose run() goes on does not stay Connecting:
\* from some point on it is Connected, Idle or shut down.
C38_ConnectingIsTimed ==
    /\ [](player.state = "Connecting" => player.connect_timeout = "armed")
    /\ Quiet => <>[](player.state # "Connecting" \/ ~player.running)

\* a Connecting player waits for the voice connection it has spawned, its
\* timer armed
C38_Witness ==
    /\ player.state = "Connecting"
    /\ player.connect_timeout = "armed"
    /\ player.conn_event_recv = "open"
    /\ player.running
    /\ player.last.arm = "update"

(***************************************************************************)
(* SpecPlayerUpdates: the player of SpecPlayer whose owner sends no        *)
(* control: it is never asked to connect.                                  *)
(***************************************************************************)
NextPlayerUpdates ==
    \/ PlayerUpdate
    \/ PlayerConnEvent
    \/ PlayerConnectTimeout
    \/ PlayerEnds

SpecPlayerUpdates == Init /\ [][NextPlayerUpdates]_vars

\* C39: a player that no Connect control has reached is never Connecting
\* and never emits ConnectError, whatever updates it receives.
C39_NoConnectErrorUnasked ==
    /\ player.state # "Connecting"
    /\ \A i \in 1..Len(player.events) :
          player.events[i].kind # "ConnectError"

\* C40: a voice-state-update that names the channel a Connected player is
\* connected to leaves it Connected, with the voice connection and the
\* stream it had, and emits neither Reconnecting nor Disconnected.
C40_SameChannelUpdateKeepsConnection ==
    [][(/\ player'.last.kind = "VoiceStateUpdate"
        /\ player.state = "Connected"
        /\ player.channel_id # None
        /\ player'.last.channel_id = player.channel_id) =>
          /\ player'.state = "Connected"
          /\ player'.conn_event_recv = player.conn_event_recv
          /\ player'.voice_send = player.voice_send
          /\ player'.encoder = player.encoder
          /\ \A i \in 1..Len(player'.events) :
                player'.events[i].kind \notin {"Reconnecting",
                                               "Disconnected"}]_vars

\* the members of an envelope written in the order t, s, op, d
InOrder(members) ==
    LET present(key) == \E i \in DOMAIN members : members[i].k = key
        member(key) ==
            members[CHOOSE i \in DOMAIN members : members[i].k = key]
        keys == <<"t", "s", "op", "d">>
        F[n \in 0..4] ==
            IF n = 0 THEN <<>>
            ELSE IF present(keys[n]) THEN Append(F[n - 1], member(keys[n]))
            ELSE F[n - 1]
    IN  F[4]

\* C36: an envelope decodes to the payload (or to the failure) that its
\* members decode to when they are written in the order t, s, op, d.
C36_DecodeIgnoresMemberOrder ==
    codec.did = "decode" =>
        LET ordered == Payload_deserialize(InOrder(codec.envelope))
        IN  /\ (codec.decoded.err = "") = (ordered.err = "")
            /\ codec.decoded.sequence = ordered.sequence
            /\ codec.decoded.event = ordered.event

(***************************************************************************)
(* SpecReplay: the duplex loop of a new session that was opened after an   *)
(* earlier connection was lost: start_discord has offered Offline to the   *)
(* guilds on record, Identify was sent and Ready was processed, and the    *)
(* server replays its GuildCreate events.  lastUnavail is "na" for a guild *)
(* until its GuildCreate is processed on this connection.                  *)
(***************************************************************************)
InitReplay ==
    /\ pc = "live"
    /\ meta = [session_id |-> 1, user |-> TRUE, application |-> TRUE]
    /\ sequence = 1
    /\ token = [kind |-> "New", session_id |-> NoSession, seq |-> 0]
    /\ finished = FALSE
    /\ \E slot \in [Guilds -> GuildSlots] :
          /\ guilds = [g \in Guilds |-> slot[g].entry]
          /\ box = [g \in Guilds |-> slot[g].box]
          /\ rx = [g \in Guilds |-> slot[g].rx]
          /\ allocated = [g \in Guilds |->
                             IF slot[g].entry.known THEN 1 ELSE 0]
          /\ notified = [g \in Guilds |->
                            IF slot[g].entry.known THEN "Offline" ELSE "none"]
    /\ lastUnavail = [g \in Guilds |-> "na"]
    /\ seedq = <<>>
    /\ cmdq = <<>>
    /\ flag = FALSE
    /\ ticksDue = 0
    /\ srvSeq = 1
    /\ wireLog = <<0>>
    /\ cmdN = 0
    /\ hs = <<[op |-> "Identify", session_id |-> NoSession, seq |-> 0]>>
    /\ maxSeen = 1
    /\ lastHb = [d |-> 0, max |-> 0]
    /\ ticksElapsed = 0
    /\ hbWritten = 0
    /\ bypass = 0
    /\ taken = [g \in Guilds |-> <<>>]
    /\ openedBy = "Identify"
    /\ invalidated = NoSession
    /\ atBuild = [session_id |-> NoSession, seq |-> 0]
    /\ offer = NoOffer
    /\ lost = 0
    /\ undecoded = FALSE
    /\ fused = FusedInit
    /\ shutdown = FALSE
    /\ PlanesInit

ReplayEnv ==
    [kinds |-> {"GuildCreate"}, un |-> {"true", "false", "missing"},
     wire |-> MaxRegistryWire]

NextReplay ==
    \/ Read(ReplayEnv)
    \/ AppSeedRecv
    \/ \E g \in Guilds : GuildRecv(g)
    \/ \E g \in Guilds : GuildDrop(g)

SpecReplay == InitReplay /\ [][NextReplay]_vars

\* C33: a guild on record as available whose last GuildCreate on this
\* connection had unavailable = false was offered Online after the last
\* Offline it was offered.
C33_OnlineAfterReplay ==
    \A g \in Guilds :
        (/\ guilds[g].known /\ guilds[g].available
         /\ lastUnavail[g] = "false") => notified[g] = "Online"

====
